---- MODULE Spec2Model ----
(***************************************************************************)
(* A model of the ZOS inode filesystem engine (src/src/Filesystem.cpp)     *)
(* over a byte-exact backing image.  The image is a sequence of bytes;     *)
(* the superblock, both bitmaps, the inode table and the data blocks are   *)
(* read and written through ReadBytes / WriteBytes at the offsets the      *)
(* code computes, and are encoded and decoded as the code does.            *)
(*                                                                         *)
(* 32-bit values.  TLC integers are 32-bit signed, so a uint32_t v is      *)
(* held as v when v < 2^31 and as v - 2^32 otherwise (0xFFFFFFFF is -1).   *)
(* The geometry computation of Format, where wrap-around matters, works    *)
(* on two-limb numbers [h, l] of value h * 65536 + l.                      *)
(***************************************************************************)
EXTENDS Integers, Sequences, FiniteSets, TLC

\* ---------------------------------------------------------------------
\* Bounds of the model
\* ---------------------------------------------------------------------

\* Block size used by the engine specifications; stands for BLOCK_SIZE of
\* Format (1024) so that a directory block holds ModelBlockSize \div 16
\* entries and a block-id table ModelBlockSize \div 4 ids.
ModelBlockSize == 32

\* Length of the operation histories explored by the engine specification.
MaxOps == 4

\* ---------------------------------------------------------------------
\* Program constants
\* ---------------------------------------------------------------------
BLOCK_SIZE == 1024
BLOCKS_PER_INODE == 4
SB_BYTE_SIZE == 40
INODE_BYTES == 41
DIRECT_LINKS == 5
NAME_SIZE == 12
DIR_ENTRYSIZE == NAME_SIZE + 4
ID_ENTRYSIZE == 4
LIMB == 256 * 256

Min(a, b) == IF a < b THEN a ELSE b
Max(a, b) == IF a > b THEN a ELSE b
\* a function on 1..n held as a tuple
AsTuple(f) == f \o <<>>
Fill(n, b) == AsTuple([i \in 1..n |-> b])

\* ---------------------------------------------------------------------
\* Codec (src/helpers/IntParser.cpp)
\* ---------------------------------------------------------------------
ReadUInt32(data) ==
    data[1] + 256 * data[2] + 65536 * data[3]
      + 16777216 * (IF data[4] >= 128 THEN data[4] - 256 ELSE data[4])

WriteUInt32(number) ==
    << number % 256,
       (number \div 256) % 256,
       (number \div 65536) % 256,
       (number \div 16777216) % 256 >>

UNUSED_LINK == ReadUInt32(<<255, 255, 255, 255>>)
FILESYSTEM_MAGIC == ReadUInt32(<<239, 190, 173, 222>>)

\* ---------------------------------------------------------------------
\* Two-limb unsigned numbers: [h, l] is h * 65536 + l with 0 <= l < 65536.
\* A uint32_t has h < 65536; the exact (unbounded) value of an expression
\* keeps the carries in h.
\* ---------------------------------------------------------------------
Wide(n) == [h |-> n \div LIMB, l |-> n % LIMB]
WAdd(a, b) == [h |-> a.h + b.h + ((a.l + b.l) \div LIMB), l |-> (a.l + b.l) % LIMB]
WMul(a, k) == [h |-> a.h * k + ((a.l * k) \div LIMB), l |-> (a.l * k) % LIMB]
WDiv(a, k) == [h |-> a.h \div k, l |-> (((a.h % k) * LIMB) + a.l) \div k]
WDec(a) == IF a.l > 0 THEN [a EXCEPT !.l = a.l - 1] ELSE [h |-> a.h - 1, l |-> LIMB - 1]
WLe(a, b) == a.h < b.h \/ (a.h = b.h /\ a.l <= b.l)
WZero(a) == a.h = 0 /\ a.l = 0
Wrap32(a) == [h |-> a.h % LIMB, l |-> a.l]
WInt(a) == a.h * LIMB + a.l

\* ---------------------------------------------------------------------
\* Bitmap (src/src/Bitmap.cpp): size bits in ceil(size/8) bytes, LSB first
\* ---------------------------------------------------------------------
Pow2(k) == CASE k = 0 -> 1 [] k = 1 -> 2 [] k = 2 -> 4 [] k = 3 -> 8
             [] k = 4 -> 16 [] k = 5 -> 32 [] k = 6 -> 64 [] OTHER -> 128

Bitmap(bitCount) == [size |-> bitCount, data |-> Fill((bitCount + 7) \div 8, 0)]

BitmapGet(bm, index) ==
    ((bm.data[(index \div 8) + 1] \div Pow2(index % 8)) % 2) = 1

BitmapSet(bm, index, value) ==
    IF BitmapGet(bm, index) = value THEN bm
    ELSE [bm EXCEPT !.data[(index \div 8) + 1] =
             IF value THEN @ + Pow2(index % 8) ELSE @ - Pow2(index % 8)]

\* [has, v]: the smallest clear bit below size, if any
FindFirstFree(bm) ==
    LET free == {i \in 0..(bm.size - 1) : ~BitmapGet(bm, i)}
    IN IF free = {} THEN [has |-> FALSE, v |-> 0]
       ELSE [has |-> TRUE, v |-> CHOOSE i \in free : \A j \in free : i <= j]

LoadFromBytes(data, bitCount) == [size |-> bitCount, data |-> data]
SaveToBytes(bm) == bm.data

\* ---------------------------------------------------------------------
\* Engine state.  A record s holds the backing image and the members of
\* Filesystem:
\*   img   the bytes of the backing file        fail  the stream's failbit
\*   sb    superblock    ib  INodeBitmap    bb  BlockBitmap
\*   cur   currentNode   fmt formated       err the exception in flight
\* A step that works on an inode through a reference takes and returns a
\* record at = [s, node]: the engine state and the caller's inode object.
\* A read returns a record [err, v]: the exception it threw, or its value.
\* ---------------------------------------------------------------------
NoErr == ""
Throw(s, e) == [s EXCEPT !.err = e]
Failed(s) == s.err # NoErr

\* a throw out of a step that works on [s, node]
ThrowAt(at, e) == [at EXCEPT !.s = Throw(at.s, e)]

\* the end of a catch block that rethrows e: an exception thrown inside the
\* block takes its place
Rethrow(s, e) == IF Failed(s) THEN s ELSE Throw(s, e)

Ok(v) == [err |-> NoErr, v |-> v]

\* two reads in sequence, their values concatenated
Cat(a, b) ==
    IF a.err # NoErr THEN a
    ELSE IF b.err # NoErr THEN b
    ELSE Ok(a.v \o b.v)

\* Errors raised because a read came back short; the stream keeps its
\* failbit until the next WriteBytes (clear()) or Resize (reopen).
ShortReadErrors == {"InvalidINodeSize", "InvalidBlockSize", "FileRead", "LastEntryRead"}

\* base + index * size as the code's 64-bit offset arithmetic gives it, for
\* the values that fit a signed 32-bit integer; -1 stands for every offset
\* above that (a block or inode id with the top bit set included), all of
\* them far beyond the end of any image of this model.
MaxInt == (LIMB \div 2 - 1) * LIMB + (LIMB - 1)
Offset(base, index, size) ==
    IF base < 0 \/ index < 0 \/ index > (MaxInt - base) \div size THEN -1
    ELSE base + index * size

\* ---------------------------------------------------------------------
\* Byte I/O (src/helpers/FileIOHandler.cpp)
\* ---------------------------------------------------------------------
ReadBytes(s, offset, size) ==
    IF s.fail \/ offset < 0 \/ offset >= Len(s.img) THEN <<>>
    ELSE SubSeq(s.img, offset + 1, Min(offset + size, Len(s.img)))

\* the image grown with zero bytes up to offset
Padded(img, offset) ==
    IF offset > Len(img) THEN img \o Fill(offset - Len(img), 0) ELSE img

\* data laid over the image from offset on
Overlay(img, offset, data) ==
    SubSeq(img, 1, offset) \o data \o SubSeq(img, offset + Len(data) + 1, Len(img))

WriteBytes(s, offset, data) ==
    IF Failed(s) THEN s
    ELSE IF offset < 0 THEN Throw(s, "WildOffset")
    ELSE IF Len(data) = 0 THEN [s EXCEPT !.fail = FALSE]
    ELSE [s EXCEPT !.fail = FALSE, !.img = Overlay(Padded(s.img, offset), offset, data)]

\* Resize without the zero-fill loop (lines 151-168): resize_file alone, which
\* keeps the bytes that stay and appends zero bytes
ResizeKeepsContent(s, newSize) ==
    [s EXCEPT !.fail = FALSE,
              !.img = IF Len(s.img) >= newSize THEN SubSeq(s.img, 1, newSize)
                      ELSE Padded(s.img, newSize)]

Resize(s, newSize) == [s EXCEPT !.fail = FALSE, !.img = Fill(newSize, 0)]

\* ---------------------------------------------------------------------
\* Superblock record (src/src/Superblock.cpp)
\* ---------------------------------------------------------------------
EmptySuperblock ==
    [magic |-> 0, blockSize |-> 0, totalBlocks |-> 0, totalInodes |-> 0,
     size |-> 0, inodeBitmapOffset |-> 0, blockBitmapOffset |-> 0,
     inodeTableOffset |-> 0, dataBlocksOffset |-> 0, rootNodeId |-> 0]

SuperblockToBytes(sb) ==
    WriteUInt32(sb.magic) \o WriteUInt32(sb.blockSize) \o WriteUInt32(sb.totalBlocks)
    \o WriteUInt32(sb.totalInodes) \o WriteUInt32(sb.size)
    \o WriteUInt32(sb.inodeBitmapOffset) \o WriteUInt32(sb.blockBitmapOffset)
    \o WriteUInt32(sb.inodeTableOffset) \o WriteUInt32(sb.dataBlocksOffset)
    \o WriteUInt32(sb.rootNodeId)

SuperblockFromBytes(data) ==
    [magic |-> ReadUInt32(SubSeq(data, 1, 4)),
     blockSize |-> ReadUInt32(SubSeq(data, 5, 8)),
     totalBlocks |-> ReadUInt32(SubSeq(data, 9, 12)),
     totalInodes |-> ReadUInt32(SubSeq(data, 13, 16)),
     size |-> ReadUInt32(SubSeq(data, 17, 20)),
     inodeBitmapOffset |-> ReadUInt32(SubSeq(data, 21, 24)),
     blockBitmapOffset |-> ReadUInt32(SubSeq(data, 25, 28)),
     inodeTableOffset |-> ReadUInt32(SubSeq(data, 29, 32)),
     dataBlocksOffset |-> ReadUInt32(SubSeq(data, 33, 36)),
     rootNodeId |-> ReadUInt32(SubSeq(data, 37, 40))]

\* ---------------------------------------------------------------------
\* Inode record (src/src/INode.cpp)
\* ---------------------------------------------------------------------
NewINode(id, isDir) ==
    [id |-> id, links |-> 1, size |-> 0, direct |-> Fill(DIRECT_LINKS, UNUSED_LINK),
     indirect1 |-> UNUSED_LINK, indirect2 |-> UNUSED_LINK, isDir |-> isDir]

DefaultINode == [NewINode(0, FALSE) EXCEPT !.links = 0]

INodeToBytes(n) ==
    WriteUInt32(n.id) \o WriteUInt32(n.links) \o WriteUInt32(n.size)
    \o WriteUInt32(n.direct[1]) \o WriteUInt32(n.direct[2]) \o WriteUInt32(n.direct[3])
    \o WriteUInt32(n.direct[4]) \o WriteUInt32(n.direct[5])
    \o WriteUInt32(n.indirect1) \o WriteUInt32(n.indirect2)
    \o << IF n.isDir THEN 1 ELSE 0 >>

\* [err, v]; only the isDirectory byte is validated
INodeFromBytes(bytes) ==
    IF bytes[INODE_BYTES] \notin {0, 1}
    THEN [err |-> "runtime_error:invalid isDir", v |-> DefaultINode]
    ELSE [err |-> NoErr,
          v |-> [id |-> ReadUInt32(SubSeq(bytes, 1, 4)),
                 links |-> ReadUInt32(SubSeq(bytes, 5, 8)),
                 size |-> ReadUInt32(SubSeq(bytes, 9, 12)),
                 direct |-> AsTuple([i \in 1..DIRECT_LINKS |->
                               ReadUInt32(SubSeq(bytes, 9 + 4 * i, 12 + 4 * i))]),
                 indirect1 |-> ReadUInt32(SubSeq(bytes, 33, 36)),
                 indirect2 |-> ReadUInt32(SubSeq(bytes, 37, 40)),
                 isDir |-> bytes[INODE_BYTES] = 1]]

\* the direct slots that are UNUSED
FreeSlots(n) == {i \in 1..DIRECT_LINKS : n.direct[i] = UNUSED_LINK}

\* the links of a list that are not UNUSED_LINK, in order
RECURSIVE UsedLinks(_)
UsedLinks(links) ==
    IF Len(links) = 0 THEN <<>>
    ELSE (IF Head(links) = UNUSED_LINK THEN <<>> ELSE <<Head(links)>>)
         \o UsedLinks(Tail(links))

\* the smallest element of a nonempty set of numbers
Least(set) == CHOOSE i \in set : \A j \in set : i <= j

\* INode::addDirectLink: the first UNUSED slot takes the link
addDirectLink(n, link) ==
    IF FreeSlots(n) = {} THEN n ELSE [n EXCEPT !.direct[Least(FreeSlots(n))] = link]

\* INode::removeLink: decrements unless the count is already 0
removeLink(n) == IF n.links = 0 THEN n ELSE [n EXCEPT !.links = n.links - 1]

\* INode::addLink
addLink(n) == [n EXCEPT !.links = n.links + 1]

\* ---------------------------------------------------------------------
\* Inode table access (Filesystem::readINode / writeINode)
\* ---------------------------------------------------------------------
\* the inode in the bytes read from a slot
SlotINode(data) ==
    IF Len(data) # INODE_BYTES THEN [err |-> "InvalidINodeSize", v |-> DefaultINode]
    ELSE INodeFromBytes(data)

readINode(s, id) ==
    SlotINode(ReadBytes(s, Offset(s.sb.inodeTableOffset, id, INODE_BYTES), INODE_BYTES))

writeINode(s, node) ==
    WriteBytes(s, Offset(s.sb.inodeTableOffset, node.id, INODE_BYTES), INodeToBytes(node))

\* writeINode of the inode a step works on
Persist(at) == [at EXCEPT !.s = writeINode(at.s, at.node)]

BlockOffset(s, block) == Offset(s.sb.dataBlocksOffset, block, s.sb.blockSize)

\* ---------------------------------------------------------------------
\* Block interpretation
\* ---------------------------------------------------------------------
\* the name field up to its first NUL
RECURSIVE NameOf(_)
NameOf(field) ==
    IF field = <<>> \/ Head(field) = 0 THEN <<>>
    ELSE <<Head(field)>> \o NameOf(Tail(field))

\* the entry in the 16 bytes of a slot
EntryOf(slot) ==
    [name |-> NameOf(SubSeq(slot, 1, NAME_SIZE)),
     id |-> ReadUInt32(SubSeq(slot, NAME_SIZE + 1, DIR_ENTRYSIZE))]

RECURSIVE DecodeEntries(_, _)
DecodeEntries(data, offset) ==
    IF offset + DIR_ENTRYSIZE > Len(data) THEN <<>>
    ELSE IF EntryOf(SubSeq(data, offset + 1, offset + DIR_ENTRYSIZE)).id = UNUSED_LINK
    THEN <<>>
    ELSE << EntryOf(SubSeq(data, offset + 1, offset + DIR_ENTRYSIZE)) >>
         \o DecodeEntries(data, offset + DIR_ENTRYSIZE)

RECURSIVE DecodeIds(_, _)
DecodeIds(data, offset) ==
    IF offset + ID_ENTRYSIZE > Len(data) THEN <<>>
    ELSE IF ReadUInt32(SubSeq(data, offset + 1, offset + ID_ENTRYSIZE)) = UNUSED_LINK
    THEN <<>>
    ELSE << ReadUInt32(SubSeq(data, offset + 1, offset + ID_ENTRYSIZE)) >>
         \o DecodeIds(data, offset + ID_ENTRYSIZE)

\* the bytes of a block as entries (dirs) or as block ids
Decoded(data, size, dirs) ==
    IF Len(data) # size THEN [err |-> "InvalidBlockSize", v |-> <<>>]
    ELSE Ok(IF dirs THEN DecodeEntries(data, 0) ELSE DecodeIds(data, 0))

ReadBlockAsSubdirectories(s, block) ==
    Decoded(ReadBytes(s, BlockOffset(s, block), s.sb.blockSize), s.sb.blockSize, TRUE)

ReadBlockAsBlockIds(s, block) ==
    Decoded(ReadBytes(s, BlockOffset(s, block), s.sb.blockSize), s.sb.blockSize, FALSE)

\* the ids of the table a link names; none when the link is UNUSED
Tier(s, link) ==
    IF link = UNUSED_LINK THEN Ok(<<>>) ELSE ReadBlockAsBlockIds(s, link)

\* the direct links before the first UNUSED one
LiveDirect(node) ==
    IF FreeSlots(node) = {} THEN node.direct
    ELSE SubSeq(node.direct, 1, Least(FreeSlots(node)) - 1)

DirectFull(node) == FreeSlots(node) = {}

\* entries of a list of content blocks, in order; blocks is a read [err, v]
RECURSIVE EntriesOfBlocks(_, _)
EntriesOfBlocks(s, blocks) ==
    IF blocks.err # NoErr \/ blocks.v = <<>> THEN blocks
    ELSE Cat(ReadBlockAsSubdirectories(s, Head(blocks.v)),
             EntriesOfBlocks(s, Ok(Tail(blocks.v))))

\* ids of the tables named by a list of table blocks, concatenated
RECURSIVE IdsOfTables(_, _)
IdsOfTables(s, tables) ==
    IF tables.err # NoErr \/ tables.v = <<>> THEN tables
    ELSE Cat(ReadBlockAsBlockIds(s, Head(tables.v)), IdsOfTables(s, Ok(Tail(tables.v))))

\* entries of the double-indirect tier in the order GetChildren reads them:
\* a table is read, then each of its content blocks, before the next table
RECURSIVE EntriesOfTables(_, _)
EntriesOfTables(s, tables) ==
    IF tables.err # NoErr \/ tables.v = <<>> THEN tables
    ELSE Cat(EntriesOfBlocks(s, ReadBlockAsBlockIds(s, Head(tables.v))),
             EntriesOfTables(s, Ok(Tail(tables.v))))

GetChildren(s, node) ==
    IF ~node.isDir THEN [err |-> "NotADirectory", v |-> <<>>]
    ELSE Cat(EntriesOfBlocks(s, Ok(LiveDirect(node))),
             IF ~DirectFull(node) \/ node.indirect1 = UNUSED_LINK THEN Ok(<<>>)
             ELSE Cat(EntriesOfBlocks(s, ReadBlockAsBlockIds(s, node.indirect1)),
                      IF node.indirect2 = UNUSED_LINK THEN Ok(<<>>)
                      ELSE EntriesOfTables(s, ReadBlockAsBlockIds(s, node.indirect2))))

\* the positions of the children with that name
Named(children, name) == {i \in 1..Len(children) : children[i].name = name}

\* [err, has, v]: the id of the first of the children with that name
FirstNamed(children, name) ==
    IF children.err # NoErr THEN [err |-> children.err, has |-> FALSE, v |-> 0]
    ELSE IF Named(children.v, name) = {} THEN [err |-> NoErr, has |-> FALSE, v |-> 0]
    ELSE [err |-> NoErr, has |-> TRUE, v |-> children.v[Least(Named(children.v, name))].id]

FindChildId(s, dir, name) == FirstNamed(GetChildren(s, dir), name)

\* ---------------------------------------------------------------------
\* Allocation (Filesystem::AllocateBlock / FreeBlock / AllocateNode / FreeNode)
\* ---------------------------------------------------------------------
\* a Bitmap::Get / Set outside the byte vector is undefined behaviour
InBitmap(bm, index) == index >= 0 /\ index < 8 * Len(bm.data)

FFBlock(s) == Fill(s.sb.blockSize, 255)
ZeroBlock(s) == Fill(s.sb.blockSize, 0)
IdsPerBlock(s) == s.sb.blockSize \div ID_ENTRYSIZE
EntriesPerBlock(s) == s.sb.blockSize \div DIR_ENTRYSIZE

\* [s, has, v]: the bit of the block FindFirstFree gave, if any, is set
TakeBlock(s, free) ==
    [s |-> IF free.has THEN [s EXCEPT !.bb = BitmapSet(s.bb, free.v, TRUE)] ELSE s,
     has |-> free.has, v |-> free.v]

AllocateBlock(s) == TakeBlock(s, FindFirstFree(s.bb))

FreeBlock(s, block) ==
    IF Failed(s) THEN s
    ELSE IF ~InBitmap(s.bb, block) THEN Throw(s, "UB:BlockBitmap")
    ELSE WriteBytes([s EXCEPT !.bb = BitmapSet(s.bb, block, FALSE)],
                    BlockOffset(s, block), ZeroBlock(s))

\* FreeBlock of each block of a read [err, v]
RECURSIVE FreeBlocks(_, _)
FreeBlocks(s, blocks) ==
    IF Failed(s) THEN s
    ELSE IF blocks.err # NoErr THEN Throw(s, blocks.err)
    ELSE IF blocks.v = <<>> THEN s
    ELSE FreeBlocks(FreeBlock(s, Head(blocks.v)), Ok(Tail(blocks.v)))

\* every non-UNUSED direct link, the single-indirect table and its ids, the
\* double-indirect table, and each second-level table followed by its ids
RECURSIVE TablesWithIds(_, _)
TablesWithIds(s, tables) ==
    IF tables.err # NoErr \/ tables.v = <<>> THEN tables
    ELSE Cat(Ok(<<Head(tables.v)>>),
             Cat(ReadBlockAsBlockIds(s, Head(tables.v)),
                 TablesWithIds(s, Ok(Tail(tables.v)))))

GetAllBlockIds(s, node) ==
    Cat(Ok(UsedLinks(node.direct)),
        Cat(IF node.indirect1 = UNUSED_LINK THEN Ok(<<>>)
            ELSE TablesWithIds(s, Ok(<<node.indirect1>>)),
            IF node.indirect2 = UNUSED_LINK THEN Ok(<<>>)
            ELSE Cat(Ok(<<node.indirect2>>),
                     TablesWithIds(s, ReadBlockAsBlockIds(s, node.indirect2)))))

\* the state with the inode's bit cleared
Unmarked(s, node) == [s EXCEPT !.ib = BitmapSet(s.ib, node.id, FALSE)]

FreeNode(s, node) ==
    IF Failed(s) THEN s
    ELSE IF ~InBitmap(s.ib, node.id) THEN Throw(s, "UB:INodeBitmap")
    ELSE WriteBytes(FreeBlocks(Unmarked(s, node), GetAllBlockIds(Unmarked(s, node), node)),
                    Offset(s.sb.inodeTableOffset, node.id, INODE_BYTES),
                    Fill(INODE_BYTES, 0))

\* ---------------------------------------------------------------------
\* Tables of block ids (shared by AttachBlock and AddChild)
\* ---------------------------------------------------------------------
\* "if (node.<tier> == UNUSED_LINK)": a fresh block, filled with 0xFF, becomes
\* the table of that tier and the inode is written; a is AllocateBlock(at.s)
NewTable(at, tier, a) ==
    IF at.node[tier] # UNUSED_LINK THEN at
    ELSE IF ~a.has THEN ThrowAt(at, "CouldNotAllocateBlock")
    ELSE Persist([s |-> WriteBytes(a.s, BlockOffset(a.s, a.v), FFBlock(a.s)),
                  node |-> [at.node EXCEPT ![tier] = a.v]])

\* the scan for a block with a free slot: has, block and count when one is
\* found, len the number of full blocks passed
NoRoom == [err |-> NoErr, has |-> FALSE, block |-> 0, count |-> 0, len |-> 0]

\* the scan after a look at the decoded block
Looked(r, block, decoded, capacity) ==
    IF decoded.err # NoErr THEN [r EXCEPT !.err = decoded.err]
    ELSE IF Len(decoded.v) < capacity
    THEN [r EXCEPT !.has = TRUE, !.block = block, !.count = Len(decoded.v)]
    ELSE [r EXCEPT !.len = @ + 1]

\* the first block of a read list with a free slot; the blocks hold
\* directory entries (dirs) or block ids
RECURSIVE FirstWithRoom(_, _, _, _)
FirstWithRoom(s, r, blocks, dirs) ==
    IF r.err # NoErr \/ r.has THEN r
    ELSE IF blocks.err # NoErr THEN [r EXCEPT !.err = blocks.err]
    ELSE IF blocks.v = <<>> THEN r
    ELSE FirstWithRoom(s,
           Looked(r, Head(blocks.v),
                  IF dirs THEN ReadBlockAsSubdirectories(s, Head(blocks.v))
                  ELSE ReadBlockAsBlockIds(s, Head(blocks.v)),
                  IF dirs THEN EntriesPerBlock(s) ELSE IdsPerBlock(s)),
           Ok(Tail(blocks.v)), dirs)

\* ---------------------------------------------------------------------
\* Filesystem::AttachBlock: [s, node]
\* ---------------------------------------------------------------------
\* the entry written into slot count of a table
PutId(at, table, count, block) ==
    [at EXCEPT !.s = WriteBytes(at.s, BlockOffset(at.s, table) + count * ID_ENTRYSIZE,
                                WriteUInt32(block))]

\* a new second-level table a, linked into slot len of the double-indirect
\* table, takes the entry as its first
AttachNewTable(at, len, a, block) ==
    IF ~a.has THEN ThrowAt(at, "CouldNotAllocateBlock")
    ELSE [at EXCEPT !.s =
            WriteBytes(
              WriteBytes(
                WriteBytes(a.s, BlockOffset(a.s, a.v), FFBlock(a.s)),
                BlockOffset(a.s, at.node.indirect2) + len * ID_ENTRYSIZE,
                WriteUInt32(a.v)),
              BlockOffset(a.s, a.v), WriteUInt32(block))]

\* the double-indirect tier after the scan of its second-level tables
AttachSecond(at, room, block) ==
    IF room.err # NoErr THEN ThrowAt(at, room.err)
    ELSE IF room.has THEN PutId(at, room.block, room.count, block)
    ELSE IF room.len < IdsPerBlock(at.s)
    THEN AttachNewTable(at, room.len, AllocateBlock(at.s), block)
    ELSE ThrowAt(at, "FileTooLarge")

AttachDouble(at, block) ==
    IF Failed(at.s) THEN at
    ELSE AttachSecond(at, FirstWithRoom(at.s, NoRoom,
                                        ReadBlockAsBlockIds(at.s, at.node.indirect2),
                                        FALSE), block)

\* AttachFirst that leaves the last slot of the single-indirect table unused
AttachFirstShortTable(at, ids, block) ==
    IF ids.err # NoErr THEN ThrowAt(at, ids.err)
    ELSE IF Len(ids.v) < IdsPerBlock(at.s) - 1
    THEN PutId(at, at.node.indirect1, Len(ids.v), block)
    ELSE AttachDouble(NewTable(at, "indirect2", AllocateBlock(at.s)), block)

\* the single-indirect tier after the read of its table
AttachFirst(at, ids, block) ==
    IF ids.err # NoErr THEN ThrowAt(at, ids.err)
    ELSE IF Len(ids.v) < IdsPerBlock(at.s)
    THEN PutId(at, at.node.indirect1, Len(ids.v), block)
    ELSE AttachDouble(NewTable(at, "indirect2", AllocateBlock(at.s)), block)

AttachSingle(at, block) ==
    IF Failed(at.s) THEN at
    ELSE AttachFirst(at, ReadBlockAsBlockIds(at.s, at.node.indirect1), block)

AttachBlock(at, block) ==
    IF ~DirectFull(at.node) THEN Persist([at EXCEPT !.node = addDirectLink(@, block)])
    ELSE AttachSingle(NewTable(at, "indirect1", AllocateBlock(at.s)), block)

\* ---------------------------------------------------------------------
\* Filesystem::AllocateNode: [s, node, has]
\* ---------------------------------------------------------------------
NoNode(s) == [s |-> s, node |-> DefaultINode, has |-> FALSE]

\* FirstBlock without the roll-back of the inode bit (line 245)
FirstBlockKeepsBit(at, a) ==
    IF ~a.has THEN NoNode(at.s)
    ELSE [has |-> TRUE]
         @@ Persist(AttachBlock([s |-> WriteBytes(a.s, BlockOffset(a.s, a.v), FFBlock(a.s)),
                                 node |-> at.node], a.v))

\* a directory inode takes its first block a
FirstBlock(at, a) ==
    IF ~a.has THEN NoNode(Unmarked(at.s, at.node))
    ELSE [has |-> TRUE]
         @@ Persist(AttachBlock([s |-> WriteBytes(a.s, BlockOffset(a.s, a.v), FFBlock(a.s)),
                                 node |-> at.node], a.v))

\* the new inode object after its bit is set
Constructed(at, isDir) ==
    IF ~isDir THEN [has |-> TRUE] @@ Persist(at)
    ELSE FirstBlock(at, AllocateBlock(at.s))

AllocateNode(s, isDir) ==
    IF ~FindFirstFree(s.ib).has THEN NoNode(s)
    ELSE Constructed([s |-> [s EXCEPT !.ib = BitmapSet(s.ib, FindFirstFree(s.ib).v, TRUE)],
                      node |-> NewINode(FindFirstFree(s.ib).v, isDir)], isDir)

\* ---------------------------------------------------------------------
\* Filesystem::AddChild: [s, node]
\* ---------------------------------------------------------------------
\* the bytes AddChild writes: the name padded with NUL up to 12 bytes (a
\* longer name is kept whole), then the child id
EntryBytes(name, childNode) ==
    name \o Fill(Max(NAME_SIZE - Len(name), 0), 0) \o WriteUInt32(childNode)

\* write the entry into slot count of block, then persist the inode
PutEntry(at, block, count, toWrite) ==
    Persist([at EXCEPT !.s = WriteBytes(at.s, BlockOffset(at.s, block)
                                                + count * DIR_ENTRYSIZE, toWrite)])

\* a new content block a, linked into slot count of a block-id table, takes
\* the entry as its first
PutInNew(at, table, count, a, toWrite) ==
    IF ~a.has THEN ThrowAt(at, "CouldNotAllocateBlock")
    ELSE Persist([at EXCEPT !.s =
                    WriteBytes(
                      WriteBytes(
                        WriteBytes(a.s, BlockOffset(a.s, a.v), FFBlock(a.s)),
                        BlockOffset(a.s, table) + count * ID_ENTRYSIZE,
                        WriteUInt32(a.v)),
                      BlockOffset(a.s, a.v), toWrite)])

NewContentBlock(at, table, count, toWrite) ==
    IF Failed(at.s) THEN at
    ELSE PutInNew(at, table, count, AllocateBlock(at.s), toWrite)

\* the block of a slot of the direct loop: the link, or a fresh block a,
\* filled with 0xFF and linked into the inode; [s, node, block]
SlotBlock(at, link, a) ==
    IF link # UNUSED_LINK THEN [block |-> link] @@ at
    ELSE IF ~a.has THEN [block |-> link] @@ ThrowAt(at, "CouldNotAllocateBlock")
    ELSE [block |-> a.v]
         @@ Persist([s |-> WriteBytes(a.s, BlockOffset(a.s, a.v), FFBlock(a.s)),
                     node |-> addDirectLink(at.node, a.v)])

\* the entry goes into the block if it has a free slot; [done, s, node]
TryBlock(at, children, toWrite) ==
    IF Failed(at.s) THEN [done |-> TRUE, s |-> at.s, node |-> at.node]
    ELSE IF children.err # NoErr
    THEN [done |-> TRUE, s |-> Throw(at.s, children.err), node |-> at.node]
    ELSE IF Len(children.v) < EntriesPerBlock(at.s)
    THEN [done |-> TRUE]
         @@ PutEntry([s |-> at.s, node |-> at.node], at.block, Len(children.v), toWrite)
    ELSE [done |-> FALSE, s |-> at.s, node |-> at.node]

\* a slot of the direct loop, its block at.block
DirectSlot(at, toWrite) ==
    TryBlock(at, ReadBlockAsSubdirectories(at.s, at.block), toWrite)

\* the loop over a copy of the direct links, from position i on; d is
\* [done, s, node], done = FALSE as long as every block seen is full
RECURSIVE AddChildDirect(_, _, _, _)
AddChildDirect(d, links, i, toWrite) ==
    IF d.done \/ i > DIRECT_LINKS THEN d
    ELSE AddChildDirect(
           DirectSlot(SlotBlock([s |-> d.s, node |-> d.node], links[i],
                                AllocateBlock(d.s)), toWrite),
           links, i + 1, toWrite)

\* a table of content blocks after the scan of its blocks; [done, s, node, len]
InTable(d, table, room, toWrite) ==
    IF room.err # NoErr
    THEN [d EXCEPT !.done = TRUE, !.s = Throw(d.s, room.err)]
    ELSE IF room.has
    THEN [done |-> TRUE, len |-> d.len]
         @@ PutEntry([s |-> d.s, node |-> d.node], room.block, room.count, toWrite)
    ELSE IF room.len < IdsPerBlock(d.s)
    THEN [done |-> TRUE, len |-> d.len]
         @@ NewContentBlock([s |-> d.s, node |-> d.node], table, room.len, toWrite)
    ELSE [d EXCEPT !.len = @ + 1]

\* the loop over the second-level tables of the double-indirect table; d is
\* [done, s, node, len], len the number of full tables passed
RECURSIVE AddChildSecondLevel(_, _, _)
AddChildSecondLevel(d, tables, toWrite) ==
    IF d.done THEN d
    ELSE IF tables.err # NoErr THEN [d EXCEPT !.done = TRUE, !.s = Throw(d.s, tables.err)]
    ELSE IF tables.v = <<>> THEN d
    ELSE AddChildSecondLevel(
           InTable(d, Head(tables.v),
                   FirstWithRoom(d.s, NoRoom, ReadBlockAsBlockIds(d.s, Head(tables.v)),
                                 TRUE),
                   toWrite),
           Ok(Tail(tables.v)), toWrite)

\* a new second-level table a, linked into slot len of the double-indirect
\* table, with a new content block for the entry
NewSecondLevel(at, len, a, toWrite) ==
    IF ~a.has THEN ThrowAt(at, "CouldNotAllocateBlock")
    ELSE NewContentBlock(
           [at EXCEPT !.s = WriteBytes(
                              WriteBytes(a.s, BlockOffset(a.s, a.v), FFBlock(a.s)),
                              BlockOffset(a.s, at.node.indirect2) + len * ID_ENTRYSIZE,
                              WriteUInt32(a.v))],
           a.v, 0, toWrite)

\* the double-indirect tier after the loop over its tables
AfterSecondLevel(d, toWrite) ==
    IF d.done THEN [s |-> d.s, node |-> d.node]
    ELSE IF d.len < IdsPerBlock(d.s)
    THEN NewSecondLevel([s |-> d.s, node |-> d.node], d.len, AllocateBlock(d.s), toWrite)
    ELSE [s |-> Throw(d.s, "FileTooLarge"), node |-> d.node]

AddChildDoubleIndirect(at, toWrite) ==
    IF Failed(at.s) THEN at
    ELSE AfterSecondLevel(
           AddChildSecondLevel([done |-> FALSE, len |-> 0] @@ at,
                               ReadBlockAsBlockIds(at.s, at.node.indirect2), toWrite),
           toWrite)

\* the single-indirect tier after the look into its table
AfterSingle(d, toWrite) ==
    IF d.done THEN [s |-> d.s, node |-> d.node]
    ELSE AddChildDoubleIndirect(NewTable([s |-> d.s, node |-> d.node], "indirect2",
                                         AllocateBlock(d.s)), toWrite)

AddChildIndirect(at, toWrite) ==
    IF Failed(at.s) THEN at
    ELSE AfterSingle(
           InTable([done |-> FALSE, len |-> 0] @@ at, at.node.indirect1,
                   FirstWithRoom(at.s, NoRoom,
                                 ReadBlockAsBlockIds(at.s, at.node.indirect1), TRUE),
                   toWrite),
           toWrite)

\* the tiers behind the direct links, when every direct block is full
AfterDirect(d, toWrite) ==
    IF d.done THEN [s |-> d.s, node |-> d.node]
    ELSE AddChildIndirect(NewTable([s |-> d.s, node |-> d.node], "indirect1",
                                   AllocateBlock(d.s)), toWrite)

AddChild(at, name, childNode) ==
    IF Failed(at.s) THEN at
    ELSE IF ~at.node.isDir THEN ThrowAt(at, "NotADirectory")
    ELSE AfterDirect(AddChildDirect([done |-> FALSE] @@ at, at.node.direct, 1,
                                    EntryBytes(name, childNode)),
                     EntryBytes(name, childNode))

\* ---------------------------------------------------------------------
\* Filesystem::RemoveChild
\* ---------------------------------------------------------------------
\* the content blocks in the order RemoveChild scans them
ScanBlocks(s, node) ==
    Cat(Ok(LiveDirect(node)),
        Cat(Tier(s, node.indirect1), IdsOfTables(s, Tier(s, node.indirect2))))

\* the live entries of a block with their location
Located(block, entries) ==
    IF entries.err # NoErr THEN entries
    ELSE Ok(AsTuple([i \in 1..Len(entries.v) |->
               [block |-> block, index |-> i - 1, id |-> entries.v[i].id]]))

\* every live entry with its location, in scan order
RECURSIVE ScanEntries(_, _)
ScanEntries(s, blocks) ==
    IF blocks.err # NoErr \/ blocks.v = <<>> THEN blocks
    ELSE Cat(Located(Head(blocks.v), ReadBlockAsSubdirectories(s, Head(blocks.v))),
             ScanEntries(s, Ok(Tail(blocks.v))))

EntryOffset(s, loc) == BlockOffset(s, loc.block) + loc.index * DIR_ENTRYSIZE

\* an index of scan that RemoveChild takes as its target: the scan assigns
\* target at every match, so the last match stays
RemoveTarget(scan, childNode) ==
    LET hits == {i \in 1..Len(scan) : scan[i].id = childNode}
    IN IF hits = {} THEN 0 ELSE CHOOSE i \in hits : \A j \in hits : j <= i

\* RemoveChild that clears the slot of the target and moves nothing
ClearTarget(s, target, last, lastData) ==
    WriteBytes(s, EntryOffset(s, target), Fill(DIR_ENTRYSIZE, 255))

\* the last entry takes the place of the target, and its own slot is cleared
MoveLast(s, target, last, lastData) ==
    IF target.block = last.block /\ target.index = last.index
    THEN WriteBytes(s, EntryOffset(s, last), Fill(DIR_ENTRYSIZE, 255))
    ELSE IF Len(lastData) # DIR_ENTRYSIZE THEN Throw(s, "LastEntryRead")
    ELSE WriteBytes(WriteBytes(s, EntryOffset(s, target), lastData),
                    EntryOffset(s, last), Fill(DIR_ENTRYSIZE, 255))

\* RemoveChild after the scan
RemoveScanned(s, scan, childNode) ==
    IF scan.err # NoErr THEN Throw(s, scan.err)
    ELSE IF RemoveTarget(scan.v, childNode) = 0 THEN Throw(s, "ChildNotFound")
    ELSE MoveLast(s, scan.v[RemoveTarget(scan.v, childNode)], scan.v[Len(scan.v)],
                  ReadBytes(s, EntryOffset(s, scan.v[Len(scan.v)]), DIR_ENTRYSIZE))

RemoveChild(s, node, childNode) ==
    IF Failed(s) THEN s
    ELSE IF ~node.isDir THEN Throw(s, "NotADirectory")
    ELSE RemoveScanned(s, ScanEntries(s, ScanBlocks(s, node)), childNode)

\* ---------------------------------------------------------------------
\* Paths (src/helpers/StringHelpers.h, Filesystem::ResolvePath / ResolveParent)
\* A path is the sequence of its characters.
\* ---------------------------------------------------------------------
SLASH == 47
DOT == 46
Dot == <<DOT>>
DotDot == <<DOT, DOT>>

\* [parts, current]: the scan of SplitPath after the characters of path
RECURSIVE SplitScan(_, _, _)
SplitScan(path, parts, current) ==
    IF path = <<>> THEN IF current # <<>> THEN Append(parts, current) ELSE parts
    ELSE IF Head(path) = SLASH
    THEN SplitScan(Tail(path), IF current # <<>> THEN Append(parts, current) ELSE parts,
                   <<>>)
    ELSE SplitScan(Tail(path), parts, Append(current, Head(path)))

SplitPath(path) == SplitScan(path, <<>>, <<>>)

Back(parts) == parts[Len(parts)]

\* the walk shared by ResolvePath and ResolveParent, from the read at on; rt:
\* the errors are std::runtime_error (ResolveParent) instead of the engine's
\* exceptions
RECURSIVE Walk(_, _, _, _)

\* the step into the child found for a component; missing is thrown when
\* there is none
RECURSIVE Step(_, _, _, _, _, _)
Step(s, node, found, missing, parts, rt) ==
    IF found.err # NoErr THEN [err |-> found.err, v |-> node]
    ELSE IF ~found.has THEN [err |-> missing, v |-> node]
    ELSE Walk(s, readINode(s, found.v), parts, rt)

Walk(s, at, parts, rt) ==
    IF at.err # NoErr \/ parts = <<>> THEN at
    ELSE IF Head(parts) = Dot THEN Walk(s, at, Tail(parts), rt)
    ELSE IF Head(parts) = DotDot
    THEN Step(s, at.v, FindChildId(s, at.v, DotDot),
              IF rt THEN "runtime_error:No parent directory" ELSE "NoParentDirectory",
              Tail(parts), rt)
    ELSE IF ~at.v.isDir
    THEN [err |-> IF rt THEN "runtime_error:Path component is not a directory"
                  ELSE "NotADirectory", v |-> at.v]
    ELSE Step(s, at.v, FindChildId(s, at.v, Head(parts)),
              IF rt THEN "runtime_error:Path not found" ELSE "PathNotFound",
              Tail(parts), rt)

\* the inode a walk starts from
StartNode(s, path) ==
    IF path[1] = SLASH THEN readINode(s, s.sb.rootNodeId) ELSE Ok(s.cur)

ResolvePath(s, path) ==
    IF path = <<>> THEN [err |-> "EmptyPath", v |-> DefaultINode]
    ELSE Walk(s, StartNode(s, path), SplitPath(path), FALSE)

\* parts.pop_back() on a path without components is undefined behaviour
PopBack(start, parts) ==
    IF start.err # NoErr \/ parts # <<>> THEN start
    ELSE [err |-> "UB:pop_back", v |-> DefaultINode]

ResolveParent(s, path) ==
    IF path = <<>> THEN [err |-> "runtime_error:Empty path", v |-> DefaultINode]
    ELSE Walk(s, PopBack(StartNode(s, path), SplitPath(path)),
              SubSeq(SplitPath(path), 1, Len(SplitPath(path)) - 1), TRUE)

\* [err, has, v, dir]: the parent directory dir of a path and the id v of
\* its child of that name; the test that the parent is a directory, made by
\* the caller or by GetChildren, gives the same exception
Lookup(s, parent, name) ==
    IF parent.err # NoErr
    THEN [err |-> parent.err, has |-> FALSE, v |-> 0, dir |-> parent.v]
    ELSE [dir |-> parent.v] @@ FindChildId(s, parent.v, name)

\* ---------------------------------------------------------------------
\* Filesystem::ReadFile: [err, v]
\* ---------------------------------------------------------------------
\* readBlock: r is [err, v, remaining], the bytes read and still to read
ReadBlock(r, data, toRead) ==
    IF Len(data) # toRead THEN [r EXCEPT !.err = "FileRead"]
    ELSE [r EXCEPT !.v = @ \o data, !.remaining = @ - toRead]

\* readBlock over the blocks of a read [err, v]
RECURSIVE ReadBlocks(_, _, _)
ReadBlocks(s, r, blocks) ==
    IF r.err # NoErr \/ r.remaining = 0 THEN r
    ELSE IF blocks.err # NoErr THEN [r EXCEPT !.err = blocks.err]
    ELSE IF blocks.v = <<>> THEN r
    ELSE ReadBlocks(s,
           ReadBlock(r, ReadBytes(s, BlockOffset(s, Head(blocks.v)),
                                  Min(s.sb.blockSize, r.remaining)),
                     Min(s.sb.blockSize, r.remaining)),
           Ok(Tail(blocks.v)))

\* the double-indirect loop
RECURSIVE ReadTables(_, _, _)
ReadTables(s, r, tables) ==
    IF r.err # NoErr \/ r.remaining = 0 THEN r
    ELSE IF tables.err # NoErr THEN [r EXCEPT !.err = tables.err]
    ELSE IF tables.v = <<>> THEN r
    ELSE ReadTables(s, ReadBlocks(s, r, ReadBlockAsBlockIds(s, Head(tables.v))),
                    Ok(Tail(tables.v)))

\* the bytes read, or the exception
Contents(r) == [err |-> r.err, v |-> IF r.err = NoErr THEN r.v ELSE <<>>]

\* ReadFile after the path is resolved
ReadINodeData(s, file) ==
    IF file.err # NoErr THEN [err |-> file.err, v |-> <<>>]
    ELSE IF file.v.isDir THEN [err |-> "NotADirectory", v |-> <<>>]
    ELSE Contents(
           ReadTables(s,
             ReadBlocks(s,
               ReadBlocks(s, [err |-> NoErr, v |-> <<>>, remaining |-> file.v.size],
                          Ok(LiveDirect(file.v))),
               Tier(s, file.v.indirect1)),
             Tier(s, file.v.indirect2)))

ReadFile(s, srcPath) ==
    IF srcPath = <<>> THEN [err |-> "EmptyPath", v |-> <<>>]
    ELSE ReadINodeData(s, ResolvePath(s, srcPath))

\* ---------------------------------------------------------------------
\* Filesystem::WriteFile
\* ---------------------------------------------------------------------
\* the release of a table of content blocks: its ids are freed, then the table
FreeTable(s, table) ==
    IF Failed(s) \/ table = UNUSED_LINK THEN s
    ELSE FreeBlock(FreeBlocks(s, ReadBlockAsBlockIds(s, table)), table)

\* the release of the second-level tables, each read when the loop reaches it
RECURSIVE FreeTables(_, _)
FreeTables(s, tables) ==
    IF Failed(s) THEN s
    ELSE IF tables.err # NoErr THEN Throw(s, tables.err)
    ELSE IF tables.v = <<>> THEN s
    ELSE FreeTables(FreeTable(s, Head(tables.v)), Ok(Tail(tables.v)))

\* the release of the double-indirect tier
FreeDouble(s, table) ==
    IF Failed(s) \/ table = UNUSED_LINK THEN s
    ELSE FreeBlock(FreeTables(s, ReadBlockAsBlockIds(s, table)), table)

\* ReleaseBlocks that frees the direct blocks and leaves the tables alone
ReleaseDirectOnly(s, file) == FreeBlocks(s, Ok(UsedLinks(file.direct)))

\* "Free existing blocks" of WriteFile
ReleaseBlocks(s, file) ==
    FreeDouble(FreeTable(FreeBlocks(s, Ok(UsedLinks(file.direct))),
                         file.indirect1),
               file.indirect2)

\* the existing file: its blocks are released and its object is reset
Truncated(s, old) ==
    IF old.err # NoErr THEN [s |-> Throw(s, old.err), node |-> old.v]
    ELSE IF old.v.isDir THEN [s |-> Throw(s, "NotADirectory"), node |-> old.v]
    ELSE [s |-> ReleaseBlocks(s, old.v),
          node |-> [old.v EXCEPT !.direct = Fill(DIRECT_LINKS, UNUSED_LINK),
                                 !.indirect1 = UNUSED_LINK,
                                 !.indirect2 = UNUSED_LINK,
                                 !.size = 0]]

\* a new file: its inode is entered into the parent, and the parent written
Created(newNode, parent, filename) ==
    IF ~newNode.has
    THEN [s |-> Throw(newNode.s, "CouldNotAllocateNode"), node |-> newNode.node]
    ELSE [s |-> Persist(AddChild([s |-> newNode.s, node |-> parent], filename,
                                 newNode.node.id)).s,
          node |-> newNode.node]

\* the loop that allocates, writes and attaches one block per chunk
RECURSIVE WriteChunks(_, _, _)

\* one chunk into the block blockOpt
WriteChunk(file, blockOpt, data, written, chunk) ==
    IF ~blockOpt.has THEN [s |-> Throw(blockOpt.s, "CouldNotAllocateBlock"), node |-> file]
    ELSE WriteChunks(
           AttachBlock([s |-> WriteBytes(blockOpt.s, BlockOffset(blockOpt.s, blockOpt.v),
                                         SubSeq(data, written + 1, written + chunk)),
                        node |-> file], blockOpt.v),
           data, written + chunk)

WriteChunks(at, data, written) ==
    IF Failed(at.s) \/ written >= Len(data) THEN at
    ELSE WriteChunk(at.node, AllocateBlock(at.s), data, written,
                    Min(at.s.sb.blockSize, Len(data) - written))

\* the size is added and the file inode written
Sized(at, size) ==
    IF Failed(at.s) THEN at.s
    ELSE writeINode(at.s, [at.node EXCEPT !.size = @ + size])

\* WriteFile after the look for the name in the parent
WriteNamed(s, found, filename, data) ==
    IF found.err # NoErr THEN Throw(s, found.err)
    ELSE Sized(WriteChunks(IF found.has THEN Truncated(s, readINode(s, found.v))
                           ELSE Created(AllocateNode(s, FALSE), found.dir, filename),
                           data, 0),
               Len(data))

WriteFile(s, srcPath, data) ==
    IF srcPath = <<>> THEN Throw(s, "EmptyPath")
    ELSE WriteNamed(s, Lookup(s, ResolveParent(s, srcPath), Back(SplitPath(srcPath))),
                    Back(SplitPath(srcPath)), data)

\* ---------------------------------------------------------------------
\* Filesystem::CopyFile / MoveFile / RemoveFile / LinkFile
\* ---------------------------------------------------------------------
\* CopyFile after the read of the source
CopyData(s, data, dstPath) ==
    IF data.err # NoErr THEN Throw(s, data.err) ELSE WriteFile(s, dstPath, data.v)

CopyFile(s, srcPath, dstPath) ==
    IF srcPath = <<>> \/ dstPath = <<>> THEN Throw(s, "EmptyPath")
    ELSE CopyData(s, ReadFile(s, srcPath), dstPath)

\* the step of RemoveFile after the directory entry is gone
DropLink(s, file) ==
    IF file.links = 1 THEN FreeNode(s, file)
    ELSE s     \* file.removeLink() changes the local copy only

\* RemoveFile after the read of the file's inode
RemoveEntry(s, parent, file) ==
    IF file.err # NoErr THEN Throw(s, file.err)
    ELSE IF file.v.isDir THEN Throw(s, "NotADirectory")
    ELSE DropLink(writeINode(RemoveChild(s, parent, file.v.id), parent), file.v)

\* RemoveFile after the look for the name in the parent
RemoveNamed(s, found) ==
    IF found.err # NoErr THEN Throw(s, found.err)
    ELSE IF ~found.has THEN Throw(s, "PathNotFound")
    ELSE RemoveEntry(s, found.dir, readINode(s, found.v))

RemoveFile(s, path) ==
    IF Failed(s) THEN s
    ELSE IF path = <<>> THEN Throw(s, "EmptyPath")
    ELSE RemoveNamed(s, Lookup(s, ResolveParent(s, path), Back(SplitPath(path))))

MoveFile(s, srcPath, dstPath) ==
    IF srcPath = <<>> \/ dstPath = <<>> THEN Throw(s, "EmptyPath")
    ELSE IF srcPath = dstPath THEN s
    ELSE RemoveFile(CopyFile(s, srcPath, dstPath), srcPath)

\* the link count of the original goes up and both inodes are written
Linked(at, original) == writeINode(writeINode(at.s, addLink(original)), at.node)

\* LinkFile after both paths are resolved
LinkNamed(s, original, found, linkName) ==
    IF original.err # NoErr THEN Throw(s, original.err)
    ELSE IF original.v.isDir THEN Throw(s, "NotADirectory")
    ELSE IF found.err # NoErr THEN Throw(s, found.err)
    ELSE IF found.has THEN Throw(s, "FileWrite")
    ELSE Linked(AddChild([s |-> s, node |-> found.dir], linkName, original.v.id),
                original.v)

LinkFile(s, originalPath, linkPath) ==
    IF originalPath = <<>> \/ linkPath = <<>> THEN Throw(s, "EmptyPath")
    ELSE LinkNamed(s, ResolvePath(s, originalPath),
                   Lookup(s, ResolveParent(s, linkPath), Back(SplitPath(linkPath))),
                   Back(SplitPath(linkPath)))

\* ---------------------------------------------------------------------
\* Filesystem::CreateDirectory / RemoveDirectory / ChangeActiveDirectory
\* ---------------------------------------------------------------------
\* a catch block that rethrows without the FreeNode call
RethrownOnly(at) == at.s

\* the catch block of CreateDirectory; at.node is the new inode as the three
\* AddChild calls left it
Caught(at) ==
    IF ~Failed(at.s) THEN at.s
    ELSE Rethrow(FreeNode([at.s EXCEPT !.err = NoErr], at.node), at.s.err)

\* CreateDirectory after the parent is resolved and the inode allocated
CreateIn(s, parent, name, newNode) ==
    IF parent.err # NoErr THEN Throw(s, parent.err)
    ELSE IF ~newNode.has THEN Throw(newNode.s, "CouldNotAllocateNode")
    ELSE Caught(
           AddChild(
             AddChild([s |-> AddChild([s |-> newNode.s, node |-> parent.v], name,
                                      newNode.node.id).s,
                       node |-> newNode.node],
                      Dot, newNode.node.id),
             DotDot, parent.v.id))

CreateDirectory(s, path) ==
    IF path = <<>> THEN Throw(s, "EmptyPath")
    ELSE CreateIn(s, ResolveParent(s, path), Back(SplitPath(path)), AllocateNode(s, TRUE))

\* RemoveDirectory after the read of the directory's inode
RemoveEmpty(s, parent, dir, children) ==
    IF dir.err # NoErr THEN Throw(s, dir.err)
    ELSE IF ~dir.v.isDir THEN Throw(s, "NotADirectory")
    ELSE IF children.err # NoErr THEN Throw(s, children.err)
    ELSE IF Len(children.v) > 2 THEN Throw(s, "runtime_error:Directory not empty")
    ELSE FreeNode(writeINode(RemoveChild(s, parent, dir.v.id), parent), dir.v)

\* RemoveDirectory after the look for the name in the parent
RemoveDirNamed(s, found) ==
    IF found.err # NoErr THEN Throw(s, found.err)
    ELSE IF ~found.has THEN Throw(s, "PathNotFound")
    ELSE IF found.v = s.cur.id THEN Throw(s, "PathNotFound:current directory")
    ELSE RemoveEmpty(s, found.dir, readINode(s, found.v),
                     GetChildren(s, readINode(s, found.v).v))

RemoveDirectory(s, path) ==
    IF path = <<>> THEN Throw(s, "EmptyPath")
    ELSE IF path = <<SLASH>> THEN Throw(s, "runtime_error:Cannot remove root directory")
    ELSE RemoveDirNamed(s, Lookup(s, ResolveParent(s, path), Back(SplitPath(path))))

\* ChangeActiveDirectory after the path is resolved
Entered(s, dir) ==
    IF dir.err # NoErr THEN Throw(s, dir.err)
    ELSE IF ~dir.v.isDir THEN Throw(s, "NotADirectory")
    ELSE [s EXCEPT !.cur = dir.v]

ChangeActiveDirectory(s, path) ==
    IF path = <<>> THEN Throw(s, "EmptyPath")
    ELSE Entered(s, ResolvePath(s, path))

\* ---------------------------------------------------------------------
\* Filesystem::Format
\* ---------------------------------------------------------------------
\* ceil(n / 8) as the code computes it, (n + 7) / 8 in uint32_t
Ceil8(n) == WDiv(Wrap32(WAdd(n, Wide(7))), 8)

\* metadata of the fitting loop, in uint32_t arithmetic
Metadata32(blocks, inodes) ==
    Wrap32(WAdd(WAdd(WAdd(Wide(SB_BYTE_SIZE), Ceil8(inodes)), Ceil8(blocks)),
                Wrap32(WMul(inodes, INODE_BYTES))))

\* the test "metadata + blocks * BLOCK_SIZE <= bytes" of the loop
Fits32(blocks, bytes, blockSize) ==
    WLe(Wrap32(WAdd(Metadata32(blocks, WDiv(blocks, BLOCKS_PER_INODE)),
                    Wrap32(WMul(blocks, blockSize)))), bytes)

\* the loop "while (blocks > 0)": [blocks, inodes] when it ends
RECURSIVE FitLoop(_, _, _, _)
FitLoop(blocks, inodes, bytes, blockSize) ==
    IF WZero(blocks) THEN [blocks |-> blocks, inodes |-> inodes]
    ELSE IF Fits32(blocks, bytes, blockSize)
    THEN [blocks |-> blocks, inodes |-> WDiv(blocks, BLOCKS_PER_INODE)]
    ELSE FitLoop(WDec(blocks), WDiv(blocks, BLOCKS_PER_INODE), bytes, blockSize)

\* the offsets of the regions, each the end of the region before it
BlockBitmapAt(fit) == Wrap32(WAdd(Wide(SB_BYTE_SIZE), Ceil8(fit.inodes)))
InodeTableAt(fit) == Wrap32(WAdd(BlockBitmapAt(fit), Ceil8(fit.blocks)))
DataBlocksAt(fit) ==
    Wrap32(WAdd(InodeTableAt(fit), Wrap32(WMul(fit.inodes, INODE_BYTES))))

\* [ok, blocks, inodes, and the four offsets] of what the loop found
Layout(fit) ==
    [ok |-> ~(WZero(fit.blocks) \/ WZero(fit.inodes)),
     blocks |-> fit.blocks, inodes |-> fit.inodes,
     inodeBitmapOffset |-> Wide(SB_BYTE_SIZE),
     blockBitmapOffset |-> BlockBitmapAt(fit),
     inodeTableOffset |-> InodeTableAt(fit),
     dataBlocksOffset |-> DataBlocksAt(fit)]

\* all as two-limb uint32_t
FormatGeometry(bytes, blockSize) ==
    Layout(FitLoop(WDiv(bytes, blockSize), Wide(0), bytes, blockSize))

\* the superblock and the empty bitmaps of the geometry g
Cleared(s, bytes, blockSize, g) ==
    [s EXCEPT !.sb = [magic |-> FILESYSTEM_MAGIC, blockSize |-> blockSize,
                      totalBlocks |-> WInt(g.blocks), totalInodes |-> WInt(g.inodes),
                      size |-> bytes,
                      inodeBitmapOffset |-> WInt(g.inodeBitmapOffset),
                      blockBitmapOffset |-> WInt(g.blockBitmapOffset),
                      inodeTableOffset |-> WInt(g.inodeTableOffset),
                      dataBlocksOffset |-> WInt(g.dataBlocksOffset),
                      rootNodeId |-> 0],
              !.ib = Bitmap(WInt(g.inodes)),
              !.bb = Bitmap(WInt(g.blocks))]

\* the superblock and both bitmaps written to the image
SaveMeta(s) ==
    WriteBytes(
      WriteBytes(
        WriteBytes(s, 0, SuperblockToBytes(s.sb)),
        s.sb.inodeBitmapOffset, SaveToBytes(s.ib)),
      s.sb.blockBitmapOffset, SaveToBytes(s.bb))

\* formated = true, unless an exception is in flight
Ready(s) == IF Failed(s) THEN s ELSE [s EXCEPT !.fmt = TRUE]

\* Format after the allocation of the root: the root becomes the current
\* node, takes its two entries, and the metadata and the current node are
\* written
FormatRoot(root) ==
    IF ~root.has THEN Throw(root.s, "CouldNotAllocateNode")
    ELSE Ready(
           Persist(
             [s |-> SaveMeta(
                      AddChild(
                        AddChild([s |-> [root.s EXCEPT !.cur = root.node,
                                                       !.sb.rootNodeId = root.node.id],
                                  node |-> root.node],
                                 Dot, root.node.id),
                        DotDot, root.node.id).s),
              node |-> root.node]).s)

\* Format after the geometry is computed
FormatLaid(s, bytes, blockSize, g) ==
    IF ~g.ok THEN Throw(s, "InvalidFilesystemSize")
    ELSE FormatRoot(AllocateNode(Cleared(s, bytes, blockSize, g), TRUE))

\* Format with the block size as a parameter (BLOCK_SIZE in the code)
FormatWith(s, bytes, blockSize) ==
    FormatLaid(Resize(s, bytes), bytes, blockSize,
               FormatGeometry(Wide(bytes), blockSize))

\* Format without line 178 (currentNode = *root): the cached current
\* directory survives the format
FormatKeepsCurrentNode(s, bytes) ==
    LET r == FormatWith(s, bytes, ModelBlockSize)
    IN IF Failed(r) THEN r ELSE [r EXCEPT !.cur = s.cur]

Format(s, bytes) == FormatWith(s, bytes, ModelBlockSize)

\* ---------------------------------------------------------------------
\* Filesystem::Filesystem / ~Filesystem
\* ---------------------------------------------------------------------
Unmounted(img) ==
    [img |-> img, fail |-> FALSE, sb |-> EmptySuperblock, ib |-> Bitmap(0),
     bb |-> Bitmap(0), cur |-> DefaultINode, fmt |-> FALSE, err |-> NoErr]

\* the constructor after the read of the root inode
Loaded(s, root) ==
    IF root.err # NoErr THEN Throw(s, root.err)
    ELSE [s EXCEPT !.ib = LoadFromBytes(ReadBytes(s, s.sb.inodeBitmapOffset,
                                                  (s.sb.totalInodes + 7) \div 8),
                                        s.sb.totalInodes),
                   !.bb = LoadFromBytes(ReadBytes(s, s.sb.blockBitmapOffset,
                                                  (s.sb.totalBlocks + 7) \div 8),
                                        s.sb.totalBlocks),
                   !.cur = root.v, !.fmt = TRUE]

\* the constructor after the superblock is decoded
Recognised(s) ==
    IF s.sb.magic # FILESYSTEM_MAGIC THEN s
    ELSE Loaded(s, readINode(s, s.sb.rootNodeId))

\* the constructor after the read of the superblock's bytes
Opened(s, sbData) ==
    IF Len(sbData) # SB_BYTE_SIZE THEN [s EXCEPT !.fail = TRUE]
    ELSE Recognised([s EXCEPT !.sb = SuperblockFromBytes(sbData)])

Construct(img) == Opened(Unmounted(img), ReadBytes(Unmounted(img), 0, SB_BYTE_SIZE))

Destruct(s) == IF ~s.fmt THEN s ELSE SaveMeta(s)

\* ---------------------------------------------------------------------
\* The engine as a state machine.  One step is one call of a public
\* operation of Filesystem, made by the dispatcher (which lets only format
\* through while the filesystem is unformatted).
\* ---------------------------------------------------------------------
VARIABLES image, failbit, superblock, INodeBitmap, BlockBitmap, currentNode,
          formated, last, linked, ops

vars == <<image, failbit, superblock, INodeBitmap, BlockBitmap, currentNode,
          formated, last, linked, ops>>

\* the engine state as a record
S == [img |-> image, fail |-> failbit, sb |-> superblock, ib |-> INodeBitmap,
      bb |-> BlockBitmap, cur |-> currentNode, fmt |-> formated, err |-> NoErr]

\* History: last is the last call (operation, arguments, the exception it
\* ended with, and the engine state it started from); linked holds the pairs
\* <<original, link>> of the successful linkFile calls since the last format.
NoCall == [op |-> "init", a |-> <<>>, b |-> <<>>, data |-> <<>>, err |-> NoErr,
           pre |-> Unmounted(<<>>)]

Call(op, a, b, data) ==
    [op |-> op, a |-> a, b |-> b, data |-> data, err |-> NoErr, pre |-> S]

\* the state a call leaves behind; a call that ended on a short read leaves
\* the stream with its failbit set
Commit(r, call) ==
    /\ image' = r.img
    /\ failbit' = (r.fail \/ r.err \in ShortReadErrors)
    /\ superblock' = r.sb
    /\ INodeBitmap' = r.ib
    /\ BlockBitmap' = r.bb
    /\ currentNode' = r.cur
    /\ formated' = r.fmt
    /\ last' = [call EXCEPT !.err = r.err]
    /\ linked' = IF r.err # NoErr THEN linked
                 ELSE IF call.op = "format" THEN {}
                 ELSE IF call.op = "linkFile" THEN linked \cup {<<call.a, call.b>>}
                 ELSE linked
    /\ ops' = ops + 1

Mounted(s) ==
    /\ image = s.img
    /\ failbit = s.fail
    /\ superblock = s.sb
    /\ INodeBitmap = s.ib
    /\ BlockBitmap = s.bb
    /\ currentNode = s.cur
    /\ formated = s.fmt
    /\ last = NoCall
    /\ linked = {}
    /\ ops = 0

\* ---------------------------------------------------------------------
\* Inputs
\* ---------------------------------------------------------------------
NameA == <<97>>
NameB == <<98>>
NameD == <<100>>
Abs(parts) == IF Len(parts) = 1 THEN <<SLASH>> \o parts[1]
              ELSE <<SLASH>> \o parts[1] \o <<SLASH>> \o parts[2]

PathA == Abs(<<NameA>>)
PathB == Abs(<<NameB>>)
PathD == Abs(<<NameD>>)
PathDA == Abs(<<NameD, NameA>>)
PathDB == Abs(<<NameD, NameB>>)
PathDDot == Abs(<<NameD, Dot>>)
RelA == NameA
RelB == NameB

\* image sizes: FsSize gives 16 blocks and 4 inodes at ModelBlockSize 32,
\* TooSmall gives no inode
FsSize == 720
TooSmall == 100

\* file contents: empty, one byte, one block and one byte
Bytes(n, first) == AsTuple([i \in 1..n |-> ((first + i) % 251) + 1])
DataEmpty == <<>>
DataX == Bytes(1, 7)
DataY == Bytes(ModelBlockSize + 1, 19)

FreshImage(size) == Destruct(Format(Construct(<<>>), size)).img

\* ---------------------------------------------------------------------
\* Actions: one per public operation
\* ---------------------------------------------------------------------
DoFormat(sizes) ==
    /\ ops < MaxOps
    /\ \E bytes \in sizes :
         Commit(Format(S, bytes), [Call("format", <<>>, <<>>, <<>>) EXCEPT !.data = <<bytes>>])

DoWriteFile(paths, datas) ==
    /\ ops < MaxOps /\ formated
    /\ \E p \in paths, X \in datas : Commit(WriteFile(S, p, X), Call("writeFile", p, <<>>, X))

DoRemoveFile(paths) ==
    /\ ops < MaxOps /\ formated
    /\ \E p \in paths : Commit(RemoveFile(S, p), Call("removeFile", p, <<>>, <<>>))

DoLinkFile(pairs) ==
    /\ ops < MaxOps /\ formated
    /\ \E pr \in pairs :
         Commit(LinkFile(S, pr[1], pr[2]), Call("linkFile", pr[1], pr[2], <<>>))

DoCopyFile(pairs) ==
    /\ ops < MaxOps /\ formated
    /\ \E pr \in pairs :
         Commit(CopyFile(S, pr[1], pr[2]), Call("copyFile", pr[1], pr[2], <<>>))

DoMoveFile(pairs) ==
    /\ ops < MaxOps /\ formated
    /\ \E pr \in pairs :
         Commit(MoveFile(S, pr[1], pr[2]), Call("moveFile", pr[1], pr[2], <<>>))

DoCreateDirectory(paths) ==
    /\ ops < MaxOps /\ formated
    /\ \E p \in paths :
         Commit(CreateDirectory(S, p), Call("createDirectory", p, <<>>, <<>>))

DoRemoveDirectory(paths) ==
    /\ ops < MaxOps /\ formated
    /\ \E p \in paths :
         Commit(RemoveDirectory(S, p), Call("removeDirectory", p, <<>>, <<>>))

DoChangeActiveDirectory(paths) ==
    /\ ops < MaxOps /\ formated
    /\ \E p \in paths :
         Commit(ChangeActiveDirectory(S, p), Call("changeActiveDirectory", p, <<>>, <<>>))

\* ---------------------------------------------------------------------
\* Spec: every operation, from an empty image or a freshly formatted one
\* ---------------------------------------------------------------------
Init == \E img \in {<<>>, FreshImage(FsSize)} : Mounted(Construct(img))

FormatAct == DoFormat({TooSmall, FsSize})
WriteFileAct == DoWriteFile({RelA, RelB, PathA, PathD, PathDA}, {DataX, DataY})
RemoveFileAct == DoRemoveFile({RelA, PathA, PathD})
LinkFileAct == DoLinkFile({<<PathA, PathB>>, <<PathA, PathDA>>})
CopyFileAct == DoCopyFile({<<PathA, PathB>>})
MoveFileAct == DoMoveFile({<<PathA, PathB>>})
CreateDirectoryAct == DoCreateDirectory({PathD})
RemoveDirectoryAct == DoRemoveDirectory({PathD, PathDDot})
ChangeActiveDirectoryAct == DoChangeActiveDirectory({<<SLASH>>, PathD})

Next ==
    \/ FormatAct
    \/ WriteFileAct
    \/ RemoveFileAct
    \/ LinkFileAct
    \/ CopyFileAct
    \/ MoveFileAct
    \/ CreateDirectoryAct
    \/ RemoveDirectoryAct
    \/ ChangeActiveDirectoryAct

Spec == Init /\ [][Next]_vars

\* ---------------------------------------------------------------------
\* What can be observed of a state
\* ---------------------------------------------------------------------
Inodes(s) == 0..(s.sb.totalInodes - 1)
Blocks(s) == 0..(s.sb.totalBlocks - 1)

\* the inodes whose bitmap bit is set
Allocated(s) == {n \in Inodes(s) : BitmapGet(s.ib, n)}

\* the entries of the directory in slot d (none if the slot is no directory)
EntriesOf(s, d) ==
    LET dir == readINode(s, d)
        children == IF dir.err # NoErr THEN [err |-> dir.err, v |-> <<>>]
                    ELSE GetChildren(s, dir.v)
    IN IF children.err # NoErr THEN <<>> ELSE children.v

\* the slots an entry of directory d names that hold a directory
ChildDirs(s, d) ==
    {e.id : e \in {EntriesOf(s, d)[i] : i \in 1..Len(EntriesOf(s, d))}}
      \cap {n \in Inodes(s) : readINode(s, n).err = NoErr /\ readINode(s, n).v.isDir}

\* the directories of the tree under the root
RECURSIVE TreeFrom(_, _, _)
TreeFrom(s, seen, frontier) ==
    IF frontier = {} THEN seen
    ELSE TreeFrom(s, seen \cup frontier,
                  UNION {ChildDirs(s, d) : d \in frontier} \ (seen \cup frontier))

TreeDirs(s) == TreeFrom(s, {}, {s.sb.rootNodeId})

\* how many directory entries of the tree carry inode id f
EntryCount(s, f) ==
    Cardinality(UNION {{<<d, i>> : i \in {j \in 1..Len(EntriesOf(s, d)) :
                                            EntriesOf(s, d)[j].id = f}} :
                       d \in TreeDirs(s)})

\* the reachable-block sweep of the inode in slot n
Sweep(s, n) ==
    LET node == readINode(s, n)
        ids == IF node.err # NoErr THEN [err |-> node.err, v |-> <<>>]
               ELSE GetAllBlockIds(s, node.v)
    IN IF ids.err # NoErr THEN <<>> ELSE ids.v

\* how often block b appears in the sweeps of the allocated inodes
Occurrences(s, b) ==
    Cardinality(UNION {{<<n, i>> : i \in {j \in 1..Len(Sweep(s, n)) :
                                            Sweep(s, n)[j] = b}} :
                       n \in Allocated(s)})

Resolves(s, path) == ResolvePath(s, path).err = NoErr
Succeeded(op) == last.op = op /\ last.err = NoErr

\* the file a removeFile/linkFile call named by its first path, before the call
PreTarget == ResolvePath(last.pre, last.a).v

\* ---------------------------------------------------------------------
\* SpecTree: the seven tree operations through absolute paths, on a freshly
\* formatted image
\* ---------------------------------------------------------------------
TreeInit == Mounted(Construct(FreshImage(FsSize)))

TreeWriteFile == DoWriteFile({PathA, PathB, PathD, PathDA}, {DataX, DataY})
TreeLinkFile == DoLinkFile({<<PathA, PathB>>, <<PathA, PathDA>>})
TreeRemoveFile == DoRemoveFile({PathA, PathB, PathD, PathDA})
TreeCopyFile == DoCopyFile({<<PathA, PathB>>, <<PathA, PathDA>>})
TreeMoveFile == DoMoveFile({<<PathA, PathB>>, <<PathA, PathDA>>})
TreeCreateDirectory == DoCreateDirectory({PathA, PathD})
TreeRemoveDirectory == DoRemoveDirectory({PathA, PathD})

TreeNext ==
    \/ TreeWriteFile
    \/ TreeLinkFile
    \/ TreeRemoveFile
    \/ TreeCopyFile
    \/ TreeMoveFile
    \/ TreeCreateDirectory
    \/ TreeRemoveDirectory

SpecTree == TreeInit /\ [][TreeNext]_vars

\* ---------------------------------------------------------------------
\* SpecFull: an image of few blocks, so that calls run out of blocks
\* ---------------------------------------------------------------------
\* 8 blocks and 2 inodes at ModelBlockSize 32
SmallFs == 380

\* a file that needs the single-indirect tier: six blocks and a byte
DataZ == Bytes(6 * ModelBlockSize + 1, 40)

FullInit == Mounted(Construct(FreshImage(SmallFs)))

FullWriteFile == DoWriteFile({PathA, PathB}, {DataX, DataZ})
FullRemoveFile == DoRemoveFile({PathA, PathB})
FullCopyFile == DoCopyFile({<<PathA, PathB>>})
FullMoveFile == DoMoveFile({<<PathA, PathB>>})
FullCreateDirectory == DoCreateDirectory({PathD})
FullRemoveDirectory == DoRemoveDirectory({PathD})

FullNext ==
    \/ FullWriteFile
    \/ FullRemoveFile
    \/ FullCopyFile
    \/ FullMoveFile
    \/ FullCreateDirectory
    \/ FullRemoveDirectory

SpecFull == FullInit /\ [][FullNext]_vars

\* ---------------------------------------------------------------------
\* SpecGeom: the geometry computation of Format at BLOCK_SIZE 1024, as a
\* function of the requested size.  Sizes are two-limb numbers; they are
\* taken below 4 MiB and in the last 32 MiB before 2^32.
\* ---------------------------------------------------------------------
GeomSizes ==
    [h : (0..24) \cup {60} \cup {LIMB - 512, LIMB - 100, LIMB - 2, LIMB - 1},
     l : {0, 1, 1023, 1024, 4095, 40000, LIMB - 1}]

GeomInit ==
    /\ \E bytes \in GeomSizes :
         last = [NoCall EXCEPT !.op = "size", !.a = bytes]
    /\ image = <<>>
    /\ failbit = FALSE
    /\ superblock = EmptySuperblock
    /\ INodeBitmap = Bitmap(0)
    /\ BlockBitmap = Bitmap(0)
    /\ currentNode = DefaultINode
    /\ formated = FALSE
    /\ linked = {}
    /\ ops = 0

\* lines 117-164 of Format applied to the size
Geometry ==
    /\ last.op = "size"
    /\ last' = [last EXCEPT !.op = "geometry", !.b = FormatGeometry(last.a, BLOCK_SIZE)]
    /\ ops' = ops + 1
    /\ UNCHANGED <<image, failbit, superblock, INodeBitmap, BlockBitmap,
                   currentNode, formated, linked>>

GeomNext == Geometry

SpecGeom == GeomInit /\ [][GeomNext]_vars

\* the geometry in mathematical integers
CeilDiv8(n) == (n + 7) \div 8
MetadataExact(b) ==
    SB_BYTE_SIZE + CeilDiv8(b \div BLOCKS_PER_INODE) + CeilDiv8(b)
      + (b \div BLOCKS_PER_INODE) * INODE_BYTES
FitsExact(b, bytes) ==
    WLe(WAdd(Wide(MetadataExact(b)), WMul(Wide(b), BLOCK_SIZE)), bytes)
TopBlocks(bytes) == WInt(WDiv(bytes, BLOCK_SIZE))
LargestFit(b, bytes) ==
    /\ 0 < b /\ b <= TopBlocks(bytes)
    /\ FitsExact(b, bytes)
    /\ \A c \in (b + 1)..TopBlocks(bytes) : ~FitsExact(c, bytes)

\* ---------------------------------------------------------------------
\* Claims
\* ---------------------------------------------------------------------

\* C1: when writeFile(p, X) succeeds, a readFile(p) made right after it
\* succeeds and returns exactly X.
C1_WriteThenRead ==
    Succeeded("writeFile") => ReadFile(S, last.a) = [err |-> NoErr, v |-> last.data]

\* C2: when a file has the names a and b, b made by linkFile(a, b), a
\* successful removeFile(a) removes the entry a and no other: a no longer
\* resolves, b resolves to the same inode and reads the file's content.
C2_RemoveOriginalKeepsLink ==
    \A pr \in linked :
      (/\ Succeeded("removeFile") /\ last.a = pr[1]
       /\ Resolves(last.pre, pr[1]) /\ Resolves(last.pre, pr[2])
       /\ ResolvePath(last.pre, pr[2]).v.id = PreTarget.id)
      => /\ ~Resolves(S, pr[1])
         /\ Resolves(S, pr[2])
         /\ ResolvePath(S, pr[2]).v.id = PreTarget.id
         /\ ReadFile(S, pr[2]) = ReadFile(last.pre, pr[1])

\* C3: for every allocated file inode, the linkCount stored in its slot is
\* the number of directory entries of the tree that carry its id.
C3_LinkConservation ==
    formated =>
      \A n \in Allocated(S) :
        (readINode(S, n).err = NoErr /\ ~readINode(S, n).v.isDir)
          => readINode(S, n).v.links = EntryCount(S, n)

\* C4: a successful removeFile of a file whose linkCount is n > 1 keeps the
\* inode and its blocks allocated and stores linkCount n - 1.
C4_RemoveDecrementsStoredLinks ==
    (Succeeded("removeFile") /\ PreTarget.links > 1)
      => /\ BitmapGet(INodeBitmap, PreTarget.id)
         /\ \A i \in 1..Len(Sweep(last.pre, PreTarget.id)) :
              BitmapGet(BlockBitmap, Sweep(last.pre, PreTarget.id)[i])
         /\ readINode(S, PreTarget.id).err = NoErr
         /\ readINode(S, PreTarget.id).v.links = PreTarget.links - 1

\* C5: when a successful removeFile has removed the last directory entry of
\* a file inode, the inode's bit is clear and every block that was reachable
\* from it is free.
C5_LastRemoveFreesInode ==
    (Succeeded("removeFile") /\ EntryCount(S, PreTarget.id) = 0)
      => /\ ~BitmapGet(INodeBitmap, PreTarget.id)
         /\ \A i \in 1..Len(Sweep(last.pre, PreTarget.id)) :
              ~BitmapGet(BlockBitmap, Sweep(last.pre, PreTarget.id)[i])

\* C6: a block's bit in the block bitmap is set if and only if the block
\* appears exactly once in the sweeps of the allocated inodes, also after a
\* call that failed with an allocation error.
C6_BlockBitmapMatchesSweeps ==
    formated =>
      \A b \in Blocks(S) : BitmapGet(BlockBitmap, b) <=> (Occurrences(S, b) = 1)

\* C7: on a formatted filesystem, bit n of the inode bitmap is set if and
\* only if the linkCount stored in slot n is at least 1.
C7_InodeBitmapMatchesLinks ==
    formated =>
      \A n \in Inodes(S) :
        BitmapGet(INodeBitmap, n)
          <=> (readINode(S, n).err = NoErr /\ readINode(S, n).v.links >= 1)

\* C8: after a successful format the filesystem is formatted, the inode
\* bitmap has bit 0 only, the block bitmap has only the bit of the root's
\* one directory block, inode 0 is a directory whose entries are '.' and
\* '..', both naming inode 0, and the current directory is the root.
C8_FormatResets ==
    Succeeded("format") =>
      /\ formated
      /\ superblock.rootNodeId = 0
      /\ \A n \in Inodes(S) : BitmapGet(INodeBitmap, n) <=> (n = 0)
      /\ readINode(S, 0).err = NoErr
      /\ readINode(S, 0).v.isDir
      /\ Len(Sweep(S, 0)) = 1
      /\ \A b \in Blocks(S) : BitmapGet(BlockBitmap, b) <=> (b = Sweep(S, 0)[1])
      /\ EntriesOf(S, 0) = << [name |-> Dot, id |-> 0], [name |-> DotDot, id |-> 0] >>
      /\ currentNode = readINode(S, 0).v

\* C8 witness: a format that succeeded on a formatted filesystem holding a
\* second inode, with the current directory in that inode.
C8_Witness ==
    /\ Succeeded("format")
    /\ last.pre.fmt
    /\ BitmapGet(last.pre.ib, 1)
    /\ last.pre.cur.id = 1

\* C9: format chooses as totalBlocks the largest b with 0 < b <= bytes/1024
\* and 40 + ceil((b/4)/8) + ceil(b/8) + (b/4)*41 + b*1024 <= bytes, sets
\* totalInodes to b/4, and fails exactly when there is no such b with
\* b/4 >= 1.
C9_LargestFittingGeometry ==
    last.op = "geometry" =>
      /\ last.b.ok =>
           /\ LargestFit(WInt(last.b.blocks), last.a)
           /\ WInt(last.b.inodes) = WInt(last.b.blocks) \div BLOCKS_PER_INODE
           /\ WInt(last.b.inodes) >= 1
      /\ ~last.b.ok =>
           \A b \in 1..TopBlocks(last.a) :
             LargestFit(b, last.a) => b \div BLOCKS_PER_INODE = 0

\* C10: when format succeeds the four offsets are 40, 40 + ceil(ti/8), that
\* plus ceil(tb/8), that plus ti*41, and dataBlocksOffset + tb*1024 <= bytes
\* in mathematical integers.
C10_RegionsFitImage ==
    (last.op = "geometry" /\ last.b.ok) =>
      LET ti == WInt(last.b.inodes)
          tb == WInt(last.b.blocks)
      IN /\ WInt(last.b.inodeBitmapOffset) = SB_BYTE_SIZE
         /\ WInt(last.b.blockBitmapOffset) = SB_BYTE_SIZE + CeilDiv8(ti)
         /\ WInt(last.b.inodeTableOffset) = SB_BYTE_SIZE + CeilDiv8(ti) + CeilDiv8(tb)
         /\ WInt(last.b.dataBlocksOffset)
              = SB_BYTE_SIZE + CeilDiv8(ti) + CeilDiv8(tb) + ti * INODE_BYTES
         /\ WLe(WAdd(last.b.dataBlocksOffset, WMul(last.b.blocks, BLOCK_SIZE)), last.a)

\* the bytes before the data blocks: superblock, bitmaps and inode table
MetadataRegion(s) == SubSeq(s.img, 1, s.sb.dataBlocksOffset)

\* a single format(bytes) on an empty file
SingleFormat(bytes) == Format(Construct(<<>>), bytes)

\* the paths the operations of Spec create files and directories under
EarlierPaths == {RelA, RelB, PathA, PathB, PathD, PathDA, PathDB}

\* C11: after a successful format(N), whatever came before it, the metadata
\* region of the image and the superblock are those a single format(N) on an
\* empty file produces, and none of the earlier files or directories
\* resolves.
C11_FormatHistoryIndependent ==
    Succeeded("format") =>
      /\ superblock = SingleFormat(last.data[1]).sb
      /\ MetadataRegion(S) = MetadataRegion(SingleFormat(last.data[1]))
      /\ \A p \in EarlierPaths : ~Resolves(S, p)

\* C11 witness: a successful format of a formatted filesystem in which a
\* file resolved and whose inode table differed from a fresh one.
C11_Witness ==
    /\ Succeeded("format")
    /\ last.pre.fmt
    /\ Resolves(last.pre, PathA)
    /\ MetadataRegion(last.pre) # MetadataRegion(SingleFormat(last.data[1]))

\* ---------------------------------------------------------------------
\* SpecDir: AddChild and RemoveChild on one directory, the root of a fresh
\* filesystem.  The directory inode in memory is currentNode; linked holds the
\* pairs <<name, id>> added and not yet removed; the ids are 1, 2, 3, ... in
\* the order of the AddChild calls.
\* ---------------------------------------------------------------------
DirFsSize == 900
DirMaxOps == 3
\* the numbers of entries the directory starts with: around the end of the
\* direct tier (8 entries beside "." and "..") and of the single-indirect
\* tier (16 more)
MaxFill == 25
DirFills == {0, 7, 8, 9, MaxFill - 2, MaxFill - 1, MaxFill}
Name12 == <<110, 97, 109, 101, 95, 111, 102, 95, 116, 119, 108, 118>>
Name13 == Name12 \o <<101>>
DirNames == {NameA, Name12, Name13}
FillName(id) == IF id % 2 = 0 THEN NameA ELSE NameB

\* the AddChild calls with the ids id..n on the directory at, up to the first
\* that throws
RECURSIVE Filled(_, _, _)
Filled(at, id, n) ==
    IF Failed(at.s) \/ id > n THEN at
    ELSE Filled(AddChild(at, FillName(id), id), id + 1, n)

FillPairs(n) == {<<FillName(id), id>> : id \in 1..n}

\* the directory of a fresh filesystem after n AddChild calls
DirStart(s, n) == Filled([s |-> s, node |-> s.cur], 1, n)

DirCommit(r, node, call, live) ==
    /\ image' = r.img
    /\ failbit' = (r.fail \/ r.err \in ShortReadErrors)
    /\ superblock' = r.sb
    /\ INodeBitmap' = r.ib
    /\ BlockBitmap' = r.bb
    /\ currentNode' = node
    /\ formated' = r.fmt
    /\ last' = [call EXCEPT !.err = r.err]
    /\ linked' = IF r.err # NoErr THEN linked ELSE live
    /\ ops' = ops + 1

\* the id the next AddChild call takes: above every id used so far
NextId == MaxFill + ops + 1

\* the state an AddChild call leaves behind
DirAdded(at, call, live) == DirCommit(at.s, at.node, call, live)

\* the directory at in memory and on the image, with the live pairs
DirMounted(at, live) ==
    /\ image = at.s.img
    /\ failbit = at.s.fail
    /\ superblock = at.s.sb
    /\ INodeBitmap = at.s.ib
    /\ BlockBitmap = at.s.bb
    /\ currentNode = at.node
    /\ formated = at.s.fmt
    /\ last = NoCall
    /\ linked = live
    /\ ops = 0

DirInit ==
    \E n \in DirFills :
        DirMounted(DirStart(Format(Construct(<<>>), DirFsSize), n), FillPairs(n))

DoAddChild(names) ==
    /\ ops < DirMaxOps
    /\ \E name \in names :
         DirAdded(AddChild([s |-> S, node |-> currentNode], name, NextId),
                  Call("addChild", name, <<>>, <<NextId>>),
                  linked \cup {<<name, NextId>>})

DoRemoveChild ==
    /\ ops < DirMaxOps
    /\ \E p \in linked :
         DirCommit(RemoveChild(S, currentNode, p[2]), currentNode,
                   Call("removeChild", p[1], <<>>, <<p[2]>>), linked \ {p})

DirAddChild == DoAddChild(DirNames)
DirRemoveChild == DoRemoveChild
DirNext == DirAddChild \/ DirRemoveChild
SpecDir == DirInit /\ [][DirNext]_vars

\* the pairs <<name, id>> of a list of entries
PairsOf(children) == {<<children[i].name, children[i].id>> : i \in 1..Len(children)}
\* the entries the directory was created with
DotPairs == {<<Dot, 0>>, <<DotDot, 0>>}
\* the names of NAME_SIZE bytes at most
FitNames == {n \in DirNames : Len(n) <= NAME_SIZE}

\* the name as the name field holds it: its first NAME_SIZE bytes
NameField(name) == SubSeq(name, 1, Min(Len(name), NAME_SIZE))
LivePairs == {<<NameField(p[1]), p[2]>> : p \in linked}

\* C12: after any sequence of AddChild and RemoveChild calls on the directory,
\* GetChildren returns exactly the pairs added and not yet removed (beside "."
\* and ".." and with the names as the name field holds them), each once.
C12_ChildrenAreLivePairs ==
    LET children == GetChildren(S, currentNode)
    IN /\ children.err = NoErr
       /\ Len(children.v) = Cardinality(linked) + 2
       /\ PairsOf(children.v) = LivePairs \cup DotPairs

\* the 16 bytes the name field and id field of an entry hold under the layout:
\* the name cut or NUL-padded to NAME_SIZE bytes, then the id
SlotBytes(name, id) ==
    NameField(name) \o Fill(NAME_SIZE - Len(NameField(name)), 0) \o WriteUInt32(id)

\* the block-id tables of a directory
DirTables(s, node) ==
    {node.indirect1, node.indirect2} \cup
    {Tier(s, node.indirect2).v[i] : i \in 1..Len(Tier(s, node.indirect2).v)}

\* the block of the data region a byte position (from 1) lies in
BlockOfByte(s, k) == (k - 1 - s.sb.dataBlocksOffset) \div s.sb.blockSize

\* the positions of the entries with that id, in scan order
SlotsOf(s, node, id) ==
    LET scan == ScanEntries(s, ScanBlocks(s, node)).v
    IN {scan[i] : i \in {j \in 1..Len(scan) : scan[j].id = id}}

\* C13: a successful AddChild(dir, name, id) leaves exactly one slot holding the
\* name cut or padded to 12 bytes and the id, the id reads back from it, and
\* every other byte of the data region is as before, but for the 0xFF fill of
\* a block the call allocated and for the block-id tables of the directory.
C13_OneSlotWritten ==
    (last.op = "addChild" /\ last.err = NoErr) =>
      LET id == last.data[1]
          slots == SlotsOf(S, currentNode, id)
          first == IF slots = {} THEN 0
                   ELSE EntryOffset(S, CHOOSE l \in slots : TRUE)
          new(b) == /\ b \in Blocks(S)
                    /\ BitmapGet(BlockBitmap, b) /\ ~BitmapGet(last.pre.bb, b)
      IN /\ Cardinality(slots) = 1
         /\ Len(image) = Len(last.pre.img)
         /\ SubSeq(image, first + 1, first + DIR_ENTRYSIZE) = SlotBytes(last.a, id)
         /\ \A k \in (superblock.dataBlocksOffset + 1)..Len(image) :
               \/ k \in (first + 1)..(first + DIR_ENTRYSIZE)
               \/ image[k] = last.pre.img[k]
               \/ BlockOfByte(S, k) \in DirTables(S, currentNode)
               \/ new(BlockOfByte(S, k)) /\ image[k] = 255

\* the id field of every slot of a block, UNUSED ones included; width is the
\* slot size and at the position of the id field in the slot
RawIds(s, block, width, at) ==
    [i \in 1..(s.sb.blockSize \div width) |->
        IF Len(ReadBytes(s, BlockOffset(s, block) + (i - 1) * width + at,
                         ID_ENTRYSIZE)) # ID_ENTRYSIZE THEN UNUSED_LINK
        ELSE ReadUInt32(ReadBytes(s, BlockOffset(s, block) + (i - 1) * width + at,
                                  ID_ENTRYSIZE))]

\* no live slot after an UNUSED one
LeftPacked(ids) ==
    \A i \in DOMAIN ids, j \in DOMAIN ids :
        (i < j /\ ids[i] = UNUSED_LINK) => ids[j] = UNUSED_LINK

\* the block-id tables and, for a directory, the content blocks of an inode
TablesOf(s, node) == DirTables(s, node) \ {UNUSED_LINK}
ContentOf(s, node) ==
    IF ~node.isDir THEN {}
    ELSE {ScanBlocks(s, node).v[i] : i \in 1..Len(ScanBlocks(s, node).v)}

NodePacked(s, node) ==
    /\ LeftPacked(node.direct)
    /\ \A t \in TablesOf(s, node) : LeftPacked(RawIds(s, t, ID_ENTRYSIZE, 0))
    /\ \A b \in ContentOf(s, node) : LeftPacked(RawIds(s, b, DIR_ENTRYSIZE, NAME_SIZE))

\* ---------------------------------------------------------------------
\* SpecPack: files that need a block-id table beside small ones, in a root
\* directory whose entries span two content blocks, on a filesystem the files
\* can fill
\* ---------------------------------------------------------------------
PackInit == Mounted(Construct(FreshImage(FsSize)))
PackWriteFile == DoWriteFile({PathA, PathB, PathD}, {DataX, DataZ})
PackRemoveFile == DoRemoveFile({PathA, PathB, PathD})
PackLinkFile == DoLinkFile({<<PathA, PathB>>, <<PathA, PathD>>})
PackCreateDirectory == DoCreateDirectory({PathD})
PackRemoveDirectory == DoRemoveDirectory({PathD, PathDDot})
PackNext ==
    \/ PackWriteFile
    \/ PackRemoveFile
    \/ PackLinkFile
    \/ PackCreateDirectory
    \/ PackRemoveDirectory
SpecPack == PackInit /\ [][PackNext]_vars

\* C14: in every state the public operations reach, the direct links of every
\* allocated inode, every block-id table and every directory content block
\* are left-packed.
C14_LeftPacked ==
    formated =>
      \A n \in Allocated(S) :
          readINode(S, n).err = NoErr => NodePacked(S, readINode(S, n).v)

\* C14 witness: a removeFile took an entry that was not the last out of a root
\* directory of two content blocks, and a file holds blocks in a table
C14_Witness ==
    /\ Succeeded("removeFile")
    /\ Len(EntriesOf(last.pre, 0)) = 4
    /\ EntriesOf(last.pre, 0)[4].id # PreTarget.id
    /\ \E n \in Allocated(S) : readINode(S, n).v.indirect1 # UNUSED_LINK

\* the directories whose bitmap bit is set
AllocatedDirs(s) ==
    {n \in Allocated(s) : readINode(s, n).err = NoErr /\ readINode(s, n).v.isDir}

\* the directories that hold an entry for n under a name other than "." and ".."
ParentsOf(s, n) ==
    {p \in AllocatedDirs(s) :
        \E i \in 1..Len(EntriesOf(s, p)) :
            /\ EntriesOf(s, p)[i].id = n
            /\ EntriesOf(s, p)[i].name \notin {Dot, DotDot}}

\* the entries in the first two slots of the first content block of directory n
FirstTwo(s, n) ==
    IF readINode(s, n).v.direct[1] = UNUSED_LINK THEN <<>>
    ELSE LET first == ReadBlockAsSubdirectories(s, readINode(s, n).v.direct[1])
         IN IF first.err # NoErr THEN <<>>
            ELSE SubSeq(first.v, 1, Min(2, Len(first.v)))

\* C15: the first two entries of the first content block of every allocated
\* directory d are "." naming d and ".." naming the directory that holds d
\* (the root itself for the root; an allocated directory for a directory that
\* no directory holds).
C15_DotEntriesFirst ==
    formated =>
      \A d \in AllocatedDirs(S) :
          /\ Len(FirstTwo(S, d)) = 2
          /\ FirstTwo(S, d)[1] = [name |-> Dot, id |-> d]
          /\ FirstTwo(S, d)[2].name = DotDot
          /\ IF d = superblock.rootNodeId THEN FirstTwo(S, d)[2].id = d
             ELSE IF ParentsOf(S, d) = {} THEN FirstTwo(S, d)[2].id \in AllocatedDirs(S)
             ELSE FirstTwo(S, d)[2].id \in ParentsOf(S, d)

\* C16: every entry of every allocated directory names an inode whose bit in
\* the inode bitmap is set.
C16_EntriesNameAllocated ==
    formated =>
      \A d \in AllocatedDirs(S) :
          \A i \in 1..Len(EntriesOf(S, d)) : EntriesOf(S, d)[i].id \in Allocated(S)

\* ---------------------------------------------------------------------
\* SpecCwd: the operations called from a current directory other than the
\* root, /e, beside an empty directory /d, with paths that end in "." or ".."
\* ---------------------------------------------------------------------
NameE == <<101>>
PathE == Abs(<<NameE>>)
PathRootDot == <<SLASH, DOT>>
CwdStart ==
    ChangeActiveDirectory(
        CreateDirectory(CreateDirectory(Construct(FreshImage(FsSize)), PathD), PathE),
        PathE)
CwdInit == Mounted(CwdStart)
CwdWriteFile == DoWriteFile({PathA, PathDA}, {DataX})
CwdRemoveFile == DoRemoveFile({PathA, PathD, PathDA})
CwdCreateDirectory == DoCreateDirectory({PathD})
CwdRemoveDirectory == DoRemoveDirectory({DotDot, PathRootDot, PathD, PathE, PathDDot})
CwdChangeActiveDirectory == DoChangeActiveDirectory({<<SLASH>>, DotDot, PathD})
CwdNext ==
    \/ CwdWriteFile
    \/ CwdRemoveFile
    \/ CwdCreateDirectory
    \/ CwdRemoveDirectory
    \/ CwdChangeActiveDirectory
SpecCwd == CwdInit /\ [][CwdNext]_vars

\* the call in last named a directory other than the current one that held an
\* entry beside "." and ".." when the call began
NonEmptyTarget ==
    /\ last.a # <<SLASH>>
    /\ Resolves(last.pre, last.a)
    /\ PreTarget.isDir
    /\ PreTarget.id # last.pre.cur.id
    /\ \E i \in 1..Len(EntriesOf(last.pre, PreTarget.id)) :
           EntriesOf(last.pre, PreTarget.id)[i].name \notin {Dot, DotDot}

\* C17: removeDirectory on a directory that holds an entry beside "." and ".."
\* throws "Directory not empty" and leaves the image, both bitmaps, the
\* superblock and the current directory as they were.
C17_NonEmptyRefused ==
    (last.op = "removeDirectory" /\ NonEmptyTarget) =>
       /\ last.err = "runtime_error:Directory not empty"
       /\ image = last.pre.img
       /\ INodeBitmap = last.pre.ib
       /\ BlockBitmap = last.pre.bb
       /\ superblock = last.pre.sb
       /\ currentNode = last.pre.cur

\* the numbers of clear bits of the two bitmaps
FreeBlockCount(s) == Cardinality({b \in Blocks(s) : ~BitmapGet(s.bb, b)})
FreeINodeCount(s) == Cardinality({n \in Inodes(s) : ~BitmapGet(s.ib, n)})

\* createDirectory(d); writeFile(d/x, data); removeFile(d/x); removeDirectory(d)
\* from state s, each call made only if the one before it succeeded
RoundTrip(s, d, x, data) ==
    RemoveDirectory(RemoveFile(WriteFile(CreateDirectory(s, d), x, data), x), d)

\* C18: from every formatted state without the directory in which the four
\* calls succeed, the round trip leaves as many free blocks and free inodes as
\* there were.
C18_RoundTripRestoresCounts ==
    LET after == RoundTrip(S, PathD, PathDA, DataX)
    IN (formated /\ ~Resolves(S, PathD) /\ after.err = NoErr) =>
          /\ FreeBlockCount(after) = FreeBlockCount(S)
          /\ FreeINodeCount(after) = FreeINodeCount(S)

\* C19: on a formatted filesystem the root inode is an allocated directory, and
\* the current directory is an allocated directory of the tree under the root.
C19_RootAndCurrentKept ==
    formated =>
      /\ superblock.rootNodeId \in AllocatedDirs(S)
      /\ currentNode.id \in AllocatedDirs(S)
      /\ currentNode.id \in TreeDirs(S)

\* ---------------------------------------------------------------------
\* Filesystem::GetCurrentPath (Filesystem.cpp 1459-1502)
\* ---------------------------------------------------------------------
\* the positions of the entries of a parent that name the node
NamesOf(children, id) ==
    {i \in 1..Len(children) :
        children[i].id = id /\ children[i].name \notin {Dot, DotDot}}

\* one round of the loop, after the parent is read; fuel bounds the rounds of
\* a walk that a cycle of ".." entries would never end
RECURSIVE PathUp(_, _, _, _)
ParentNamed(s, node, parent, children, path, fuel) ==
    IF parent.v.id = node.id THEN Ok(path)
    ELSE IF children.err # NoErr THEN [err |-> children.err, v |-> <<>>]
    ELSE IF NamesOf(children.v, node.id) = {} THEN [err |-> "FileRead", v |-> <<>>]
    ELSE PathUp(s, parent.v,
                <<children.v[Least(NamesOf(children.v, node.id))].name>> \o path,
                fuel - 1)

ParentRead(s, node, parent, path, fuel) ==
    IF parent.err # NoErr THEN [err |-> parent.err, v |-> <<>>]
    ELSE ParentNamed(s, node, parent, GetChildren(s, parent.v), path, fuel)

ParentFound(s, node, parentId, path, fuel) ==
    IF parentId.err # NoErr THEN [err |-> parentId.err, v |-> <<>>]
    ELSE IF ~parentId.has THEN [err |-> "NoParentDirectory", v |-> <<>>]
    ELSE ParentRead(s, node, readINode(s, parentId.v), path, fuel)

PathUp(s, node, path, fuel) ==
    IF fuel = 0 THEN [err |-> "Loop", v |-> <<>>]
    ELSE ParentFound(s, node, FindChildId(s, node, DotDot), path, fuel)

GetCurrentPath(s) ==
    IF s.cur.id = s.sb.rootNodeId THEN Ok(<<>>)
    ELSE PathUp(s, s.cur, <<>>, s.sb.totalInodes + 1)

\* ---------------------------------------------------------------------
\* FilesystemInterface (src/src/FilesystemInterface.cpp): Execute and the
\* commands.  A command is [name, path, size, script]; a script is the list
\* of the commands on the lines of a host file, NoScript a file that does not
\* open.  A result is [s, msg, error, escaped, log]: the engine state, the
\* message, whether it is an "Error: ..." message, whether an exception left
\* Execute, and one log entry per Execute call made (those of the lines of a
\* script first): the command, Formated() at its start, its message and the
\* engine operations it called.
\* ---------------------------------------------------------------------
Cmd(name, path, size, script) ==
    [name |-> name, path |-> path, size |-> size, script |-> script]
NoScript == <<"no file">>
Ungated == {"format", "load", "exit"}
NotFormated == "Filesystem not formated"

Entry(c, fmt, msg, calls) == [cmd |-> c.name, fmt |-> fmt, msg |-> msg, calls |-> calls]

\* the engine as the next call finds it: the exception is gone, a short read
\* has left the stream failed
Settled(r) ==
    [r EXCEPT !.fail = r.fail \/ r.err \in ShortReadErrors, !.err = NoErr]

\* a command that is one engine call: the engine after it, the message of
\* success, the operation called
Engine(r, msg, op) == [s |-> r, msg |-> msg, log |-> <<>>, calls |-> <<op>>]

\* lines 29-42: the message of the command or of the exception it threw, after
\* cmd_pwd; an exception of cmd_pwd is thrown again by the cmd_pwd of the
\* handler and leaves Execute
Answered(c, fmt, d, pwd) ==
    [s |-> Settled(d.s),
     msg |-> IF d.s.err # NoErr THEN d.s.err ELSE d.msg,
     error |-> d.s.err # NoErr,
     escaped |-> pwd.err # NoErr,
     log |-> d.log \o <<Entry(c, fmt, IF d.s.err # NoErr THEN d.s.err ELSE d.msg,
                             d.calls \o <<"GetCurrentPath">>)>>]

RECURSIVE Execute(_, _)
RECURSIVE RunLines(_, _, _)

\* cmd_load after a line: exit ends the script, an error message or an
\* exception ends it with that message
AfterLine(r, rest, log) ==
    IF r.escaped THEN [s |-> [r.s EXCEPT !.err = "escaped"], msg |-> r.msg,
                       log |-> log \o r.log, calls |-> <<>>]
    ELSE IF r.msg = "exit" THEN [s |-> r.s, msg |-> "OK", log |-> log \o r.log,
                                 calls |-> <<>>]
    ELSE IF r.error THEN [s |-> r.s, msg |-> r.msg, log |-> log \o r.log,
                          calls |-> <<>>]
    ELSE RunLines(r.s, rest, log \o r.log)

RunLines(s, lines, log) ==
    IF lines = <<>> THEN [s |-> s, msg |-> "OK", log |-> log, calls |-> <<>>]
    ELSE AfterLine(Execute(s, Head(lines)), Tail(lines), log)

cmd_load(s, c) ==
    IF c.script = NoScript
    THEN [s |-> s, msg |-> "FILE NOT FOUND", log |-> <<>>, calls |-> <<>>]
    ELSE RunLines(s, c.script, <<>>)

\* commandMap[cmd](args), lines 31 and 66-245
Dispatch(s, c) ==
    CASE c.name = "format" -> Engine(Format(s, c.size), "Filesystem formatted", "Format")
      [] c.name = "exit" -> [s |-> s, msg |-> "exit", log |-> <<>>, calls |-> <<>>]
      [] c.name = "load" -> cmd_load(s, c)
      [] c.name = "mkdir" ->
           Engine(CreateDirectory(s, c.path), "Directory created", "CreateDirectory")
      [] c.name = "rmdir" ->
           Engine(RemoveDirectory(s, c.path), "Directory removed", "RemoveDirectory")
      [] c.name = "cd" ->
           Engine(ChangeActiveDirectory(s, c.path), "", "ChangeActiveDirectory")
      [] c.name = "rm" -> Engine(RemoveFile(s, c.path), "File removed", "RemoveFile")
      [] OTHER -> [s |-> Throw(s, "Unknown command"), msg |-> "", log |-> <<>>,
                   calls |-> <<>>]

\* Execute whatever Formated() says: lines 29-42 alone
Unchecked(s, c, d) ==
    Answered(c, s.fmt, d, GetCurrentPath(Settled(d.s)))

\* Execute without the Formated() test of lines 25-27
WithoutFormatedTest(s, c, d) == Unchecked(s, c, d)

\* lines 25-27, then the command
Checked(s, c, d) ==
    IF ~s.fmt /\ c.name \notin Ungated
    THEN [s |-> s, msg |-> NotFormated, error |-> FALSE, escaped |-> FALSE,
          log |-> <<Entry(c, s.fmt, NotFormated, <<>>)>>]
    ELSE Unchecked(s, c, d)

Execute(s, c) == Checked(s, c, Dispatch(s, c))

\* ---------------------------------------------------------------------
\* SpecExec: commands given to Execute, on an empty image file, on a file that
\* holds no filesystem and on a formatted one
\* ---------------------------------------------------------------------
Unparsed == 0
FormatCmds == {Cmd("format", <<>>, n, <<>>) : n \in {Unparsed, TooSmall, FsSize}}
EngineCmds ==
    {Cmd(n, PathD, 0, <<>>) : n \in {"mkdir", "rmdir", "cd", "rm", "frob"}}
ScriptA ==
    << Cmd("mkdir", PathD, 0, <<>>), Cmd("format", <<>>, FsSize, <<>>),
       Cmd("mkdir", PathD, 0, <<>>), Cmd("exit", <<>>, 0, <<>>),
       Cmd("cd", PathD, 0, <<>>) >>
ScriptB ==
    << Cmd("cd", PathD, 0, <<>>), Cmd("format", <<>>, TooSmall, <<>>),
       Cmd("mkdir", PathD, 0, <<>>) >>
ScriptC == << Cmd("rm", PathD, 0, <<>>), Cmd("load", <<>>, 0, ScriptA),
              Cmd("cd", PathD, 0, <<>>) >>
LoadCmds == {Cmd("load", <<>>, 0, f) : f \in {NoScript, ScriptB, ScriptC, ScriptA}}
ExitCmds == {Cmd("exit", <<>>, 0, <<>>)}

\* the state an Execute call leaves behind
Executed(r, c) ==
    Commit([r.s EXCEPT !.err = IF r.escaped THEN "escaped"
                                ELSE IF r.error THEN r.msg ELSE NoErr],
           Call("execute", c, r.msg, r.log))

DoExecute(commands) ==
    /\ ops < MaxOps
    /\ \E c \in commands : Executed(Execute(S, c), c)

ExecInit ==
    \E img \in {<<>>, Bytes(FsSize, 3), FreshImage(FsSize)} : Mounted(Construct(img))
ExecFormat == DoExecute(FormatCmds)
ExecLoad == DoExecute(LoadCmds)
ExecExit == DoExecute(ExitCmds)
ExecEngine == DoExecute(EngineCmds)
ExecNext == ExecFormat \/ ExecLoad \/ ExecExit \/ ExecEngine
SpecExec == ExecInit /\ [][ExecNext]_vars

\* the log entries of the commands that found the filesystem unformatted and
\* are neither format, load nor exit
Gated(log) == {i \in 1..Len(log) : ~log[i].fmt /\ log[i].cmd \notin Ungated}

\* C20: every command other than format, load and exit that Execute receives
\* while Formated() is false, directly or as a line of a loaded script, gets
\* the message "Filesystem not formated" and calls no engine operation; a
\* rejected command leaves the engine as it was; and the filesystem leaves the
\* unformatted state only in a call in which a format command succeeded.
C20_UnformattedRejects ==
    last.op = "execute" =>
      /\ \A i \in Gated(last.data) :
            last.data[i].msg = NotFormated /\ last.data[i].calls = <<>>
      /\ (~last.pre.fmt /\ last.a.name \notin Ungated) => S = last.pre
      /\ (~last.pre.fmt /\ formated) =>
            \E i \in 1..Len(last.data) :
                /\ last.data[i].cmd = "format"
                /\ last.data[i].msg = "Filesystem formatted"
      /\ (~last.pre.fmt /\ ~formated) =>
            \A i \in 1..Len(last.data) :
                ~(last.data[i].cmd = "format" /\ last.data[i].msg = "Filesystem formatted")

\* C20 witness: a script loaded on an unformatted filesystem had a line
\* rejected, then formatted, then had the same line run by the engine
C20_Witness ==
    /\ last.op = "execute" /\ last.a.name = "load" /\ ~last.pre.fmt /\ formated
    /\ Gated(last.data) # {}
    /\ \E i \in 1..Len(last.data) :
          /\ last.data[i].cmd = "mkdir" /\ last.data[i].fmt
          /\ last.data[i].calls = <<"CreateDirectory", "GetCurrentPath">>
          /\ last.data[i].msg = "Directory created"

\* ---------------------------------------------------------------------
\* Teardown followed by mount
\* ---------------------------------------------------------------------
\* the engine constructed on the image the destructor leaves
Remounted(s) == Construct(Destruct(s).img)

AbsPaths == {PathA, PathB, PathD, PathDA, PathDB}

RelPaths == {RelA, RelB}

\* a path resolves to the same inode kind and reads the same content
SameAnswer(s, t, path) ==
    /\ ReadFile(s, path) = ReadFile(t, path)
    /\ ResolvePath(s, path).err = ResolvePath(t, path).err
    /\ ResolvePath(s, path).err = NoErr
         => ResolvePath(s, path).v.isDir = ResolvePath(t, path).v.isDir

\* C21: on a formatted filesystem whose last operation succeeded, destroying
\* the engine and constructing a new one on the same image gives a formatted
\* filesystem with the same two bitmaps, whose current directory is the root,
\* and in which every path (absolute, and relative when the current
\* directory was the root) resolves to the same content.
C21_RemountLossless ==
    (formated /\ last.op # "init" /\ last.err = NoErr) =>
      LET m == Remounted(S) IN
        /\ m.fmt
        /\ m.ib = INodeBitmap
        /\ m.bb = BlockBitmap
        /\ m.cur.id = superblock.rootNodeId
        /\ \A p \in AbsPaths : SameAnswer(S, m, p)
        /\ currentNode.id = superblock.rootNodeId
             => \A p \in RelPaths : SameAnswer(S, m, p)

\* ---------------------------------------------------------------------
\* createDirectory that fails after the allocation of the new inode
\* ---------------------------------------------------------------------
\* the inode AllocateNode(true) hands to the last createDirectory call
NewDir == AllocateNode(last.pre, TRUE)

\* the last call was a createDirectory that failed after ResolveParent and
\* AllocateNode had succeeded
FailedAfterAllocation ==
    /\ last.op = "createDirectory"
    /\ last.err # NoErr
    /\ last.a # <<>>
    /\ ResolveParent(last.pre, last.a).err = NoErr
    /\ NewDir.has

\* C22: when createDirectory fails after the new inode was allocated, on
\* return the inode's bit is clear, its directory block is free again, and
\* the parent holds no entry that refers to the new inode.
C22_FailedCreateLeavesNothing ==
    FailedAfterAllocation =>
      /\ ~BitmapGet(INodeBitmap, NewDir.node.id)
      /\ ~BitmapGet(BlockBitmap, NewDir.node.direct[1])
      /\ \A i \in 1..Len(EntriesOf(S, ResolveParent(last.pre, last.a).v.id)) :
           EntriesOf(S, ResolveParent(last.pre, last.a).v.id)[i].id # NewDir.node.id

C22_Witness ==
    /\ FailedAfterAllocation
    /\ last.err = "CouldNotAllocateBlock"

\* ---------------------------------------------------------------------
\* SpecScarce: the tree operations on a filesystem in which /a already
\* takes ten of the sixteen blocks, so that calls run out of blocks while
\* inodes are still free.
\* ---------------------------------------------------------------------
PathDE == Abs(<<NameD, NameE>>)
DataV == Bytes(DIRECT_LINKS * ModelBlockSize, 60)

ScarceInit == Mounted(WriteFile(Construct(FreshImage(FsSize)), PathA, DataZ))

ScarceWriteFile == DoWriteFile({PathA, PathB, PathDA}, {DataX, DataV, DataZ})
ScarceRemoveFile == DoRemoveFile({PathA, PathB})
ScarceCreateDirectory == DoCreateDirectory({PathD, PathE, PathDE})
ScarceRemoveDirectory == DoRemoveDirectory({PathD})

ScarceNext ==
    \/ ScarceWriteFile
    \/ ScarceRemoveFile
    \/ ScarceCreateDirectory
    \/ ScarceRemoveDirectory

SpecScarce == ScarceInit /\ [][ScarceNext]_vars

\* ---------------------------------------------------------------------
\* linkFile: its refusals and its effect
\* ---------------------------------------------------------------------
\* the last call left the image, the bitmaps and the current directory alone
NothingChanged ==
    /\ image = last.pre.img
    /\ INodeBitmap = last.pre.ib
    /\ BlockBitmap = last.pre.bb
    /\ currentNode = last.pre.cur

\* a list without its element i
Without(seq, i) == SubSeq(seq, 1, i - 1) \o SubSeq(seq, i + 1, Len(seq))

\* the directory the link name of the last linkFile call lies in, its
\* entries as the image holds them, and the link name
LinkParent == ResolveParent(last.pre, last.b)
LinkName == Back(SplitPath(last.b))
LinkNameTaken ==
    \E i \in 1..Len(EntriesOf(last.pre, LinkParent.v.id)) :
        EntriesOf(last.pre, LinkParent.v.id)[i].name = LinkName

\* a linkFile call whose original resolves and whose link parent is a directory
LinkCall ==
    /\ last.op = "linkFile"
    /\ last.a # <<>> /\ last.b # <<>>
    /\ Resolves(last.pre, last.a)
    /\ LinkParent.err = NoErr /\ LinkParent.v.isDir

\* C23: linkFile fails with NotADirectory when the original is a directory
\* and with FileWrite when the link name exists, and changes nothing then; on
\* success the link's directory gains exactly the one entry (linkName,
\* original id) and the stored link count of the original grows by one.
C23_LinkFileEffect ==
    LinkCall =>
      LET original == ResolvePath(last.pre, last.a).v
          before == EntriesOf(last.pre, LinkParent.v.id)
          after == EntriesOf(S, LinkParent.v.id)
      IN /\ original.isDir => last.err = "NotADirectory" /\ NothingChanged
         /\ (~original.isDir /\ LinkNameTaken) => last.err = "FileWrite" /\ NothingChanged
         /\ last.err = NoErr =>
              /\ \E i \in 1..Len(after) :
                   /\ after[i] = [name |-> LinkName, id |-> original.id]
                   /\ Without(after, i) = before
              /\ readINode(S, original.id).v.links = original.links + 1

\* ---------------------------------------------------------------------
\* SpecRel: file operations from the root as current directory, through
\* relative and absolute spellings of the same names.
\* ---------------------------------------------------------------------
DotA == <<DOT, SLASH>> \o NameA
PathDotA == Abs(<<Dot, NameA>>)

RelWriteFile == DoWriteFile({RelA, PathA, PathB}, {DataX, DataY})
RelLinkFile == DoLinkFile({<<RelA, RelB>>, <<PathA, RelB>>, <<PathA, PathB>>})
RelRemoveFile == DoRemoveFile({RelA, PathB})
RelCopyFile == DoCopyFile({<<RelA, RelB>>, <<PathA, RelB>>, <<PathA, PathB>>})
RelMoveFile == DoMoveFile({<<RelA, DotA>>, <<PathA, PathA>>, <<PathA, PathB>>,
                           <<PathA, PathDotA>>, <<PathB, PathA>>})

RelNext ==
    \/ RelWriteFile
    \/ RelLinkFile
    \/ RelRemoveFile
    \/ RelCopyFile
    \/ RelMoveFile

SpecRel == TreeInit /\ [][RelNext]_vars

\* ---------------------------------------------------------------------
\* copyFile: the copy is independent of its source
\* ---------------------------------------------------------------------
\* the blocks of the sweeps of two inodes
SweepBlocks(s, n) == {Sweep(s, n)[i] : i \in 1..Len(Sweep(s, n))}

\* a writeFile or removeFile on path p leaves what path q reads unchanged
LaterCallsKeep(s, p, q) ==
    /\ \A X \in {DataEmpty, DataX, DataY} :
         ~Failed(WriteFile(s, p, X)) => ReadFile(WriteFile(s, p, X), q) = ReadFile(s, q)
    /\ ~Failed(RemoveFile(s, p)) => ReadFile(RemoveFile(s, p), q) = ReadFile(s, q)

\* a successful copyFile whose destination was not a name of the source inode
CopiedApart ==
    /\ Succeeded("copyFile")
    /\ Resolves(last.pre, last.b)
         => ResolvePath(last.pre, last.b).v.id # ResolvePath(last.pre, last.a).v.id

\* C24: after a successful copyFile(src, dst) onto another inode, dst reads
\* what src reads (the content src had), the two inodes share no block, and a
\* later writeFile or removeFile on either path leaves the other's content
\* unchanged.
C24_CopyIsIndependent ==
    CopiedApart =>
      /\ Resolves(S, last.a) /\ Resolves(S, last.b)
      /\ ResolvePath(S, last.a).v.id # ResolvePath(S, last.b).v.id
      /\ ReadFile(S, last.b) = ReadFile(last.pre, last.a)
      /\ ReadFile(S, last.a) = ReadFile(S, last.b)
      /\ SweepBlocks(S, ResolvePath(S, last.a).v.id)
           \cap SweepBlocks(S, ResolvePath(S, last.b).v.id) = {}
      /\ LaterCallsKeep(S, last.a, last.b)
      /\ LaterCallsKeep(S, last.b, last.a)

\* ---------------------------------------------------------------------
\* moveFile keeps the data
\* ---------------------------------------------------------------------
\* C25: after a successful moveFile(src, dst) with two different path
\* strings, dst resolves to a file that reads the content src had before the
\* call; with equal strings the call changes nothing.
C25_MoveKeepsData ==
    Succeeded("moveFile") =>
      IF last.a = last.b THEN NothingChanged
      ELSE /\ Resolves(S, last.b)
           /\ ~ResolvePath(S, last.b).v.isDir
           /\ ReadFile(S, last.b) = ReadFile(last.pre, last.a)

\* ---------------------------------------------------------------------
\* The directories form a tree
\* ---------------------------------------------------------------------
\* the places <<directory, index>> of the entries that refer to inode n under
\* a name other than "." and ".."
NonDotRefs(s, n) ==
    UNION {{<<p, i>> : i \in {j \in 1..Len(EntriesOf(s, p)) :
                                 /\ EntriesOf(s, p)[j].id = n
                                 /\ EntriesOf(s, p)[j].name \notin {Dot, DotDot}}} :
           p \in AllocatedDirs(s)}

\* the inode the ".." entry of directory n names
DotDotOf(s, n) ==
    LET hits == {i \in 1..Len(EntriesOf(s, n)) : EntriesOf(s, n)[i].name = DotDot}
    IN IF hits = {} THEN UNUSED_LINK
       ELSE EntriesOf(s, n)[CHOOSE i \in hits : \A j \in hits : i <= j].id

\* C26: every allocated directory other than the root is referred to by
\* exactly one entry other than "." and "..", and that entry lies in the
\* directory its ".." names.
C26_DirectoriesFormTree ==
    formated =>
      \A d \in AllocatedDirs(S) \ {superblock.rootNodeId} :
        /\ Cardinality(NonDotRefs(S, d)) = 1
        /\ \A r \in NonDotRefs(S, d) : r[1] = DotDotOf(S, d)

\* ---------------------------------------------------------------------
\* SpecPwd: the current directory is /e, entered by changeActiveDirectory;
\* the calls add and remove the other entries of the root, and enter the
\* root and /e again.
\* ---------------------------------------------------------------------
PwdWriteFile == DoWriteFile({PathA, PathD}, {DataX})
PwdRemoveFile == DoRemoveFile({PathA, PathD})
PwdCreateDirectory == DoCreateDirectory({PathD})
PwdRemoveDirectory == DoRemoveDirectory({PathD, PathDDot})
PwdChangeActiveDirectory == DoChangeActiveDirectory({<<SLASH>>, PathE})

PwdNext ==
    \/ PwdWriteFile
    \/ PwdRemoveFile
    \/ PwdCreateDirectory
    \/ PwdRemoveDirectory
    \/ PwdChangeActiveDirectory

SpecPwd == CwdInit /\ [][PwdNext]_vars

\* C27: after changeActiveDirectory of an absolute path without "." and ".."
\* getCurrentPath returns the names of the path (the empty list for the
\* root), and still does after later calls that add or remove other entries
\* of the ancestors: while the current directory is the inode /e was made
\* with, the answer is <<e>>.
C27_CurrentPathIsEnteredPath ==
    /\ (Succeeded("changeActiveDirectory") /\ last.a = PathE)
         => GetCurrentPath(S) = Ok(<<NameE>>)
    /\ (Succeeded("changeActiveDirectory") /\ last.a = <<SLASH>>)
         => GetCurrentPath(S) = Ok(<<>>)
    /\ currentNode.id = CwdStart.cur.id => GetCurrentPath(S) = Ok(<<NameE>>)
    /\ currentNode.id = superblock.rootNodeId => GetCurrentPath(S) = Ok(<<>>)

\* ---------------------------------------------------------------------
\* SpecIO: the byte I/O of FileIOHandler on a file opened READ_WRITE, empty
\* at first: ReadBytes, WriteBytes and Resize at small offsets and sizes.
\* last.a holds the numbers of the call, last.data the bytes written or read.
\* ---------------------------------------------------------------------
IoSizes == {0, 2, 4, 10}
IoOffsets == {0, 3}
DataD == Bytes(4, 64)

\* the stream after ReadBytes: a read that ends early sets the failbit
AfterRead(s, offset, size) ==
    [s EXCEPT !.fail = s.fail \/ Len(ReadBytes(s, offset, size)) < size]

DoReadBytes ==
    /\ ops < MaxOps
    /\ \E o \in IoOffsets, n \in IoSizes :
         Commit(AfterRead(S, o, n), Call("readBytes", <<o, n>>, <<>>, ReadBytes(S, o, n)))

DoWriteBytes ==
    /\ ops < MaxOps
    /\ \E o \in IoOffsets, X \in {DataX, DataD} :
         Commit(WriteBytes(S, o, X), Call("writeBytes", <<o>>, <<>>, X))

DoResize ==
    /\ ops < MaxOps
    /\ \E n \in IoSizes : Commit(Resize(S, n), Call("resize", <<n>>, <<>>, <<>>))

IoInit == Mounted(Unmounted(<<>>))

IoNext ==
    \/ DoReadBytes
    \/ DoWriteBytes
    \/ DoResize

SpecIO == IoInit /\ [][IoNext]_vars

GrownThenCut(s, larger, n) == Resize(Resize(s, larger), n)

\* C29: after data D is written at offset 0 of the empty file, a resize to a
\* larger size and then to n < Len(D) leaves a file of n bytes whose bytes are
\* the first n bytes of D; the grown bytes read as zero, and a read of more
\* bytes than remain returns the n bytes only.
C29_ResizeKeepsBytesInRange ==
    (Succeeded("writeBytes") /\ last.a = <<0>> /\ last.pre.img = <<>>) =>
      \A larger \in {m \in IoSizes : m > Len(last.data)} :
        /\ Len(ReadBytes(Resize(S, larger), 0, larger)) = larger
        /\ \A i \in (Len(last.data) + 1)..larger :
             ReadBytes(Resize(S, larger), 0, larger)[i] = 0
        /\ \A n \in {m \in IoSizes : m < Len(last.data)} :
             /\ Len(GrownThenCut(S, larger, n).img) = n
             /\ ReadBytes(GrownThenCut(S, larger, n), 0, larger) = SubSeq(last.data, 1, n)

\* ---------------------------------------------------------------------
\* writeFile that fails on an allocation
\* ---------------------------------------------------------------------
\* the last writeFile call got as far as the file's inode and then failed
\* for want of a block
WriteFailedOnAllocation ==
    /\ last.op = "writeFile"
    /\ last.err \in {"CouldNotAllocateBlock", "FileTooLarge"}
    /\ last.a # <<>>
    /\ ResolveParent(last.pre, last.a).err = NoErr

\* the directory of the file, and the inode the call wrote to: the one the
\* name had, or the one AllocateNode handed out
WrittenParent == ResolveParent(last.pre, last.a).v
WrittenFile ==
    IF FindChildId(last.pre, WrittenParent, Back(SplitPath(last.a))).has
    THEN FindChildId(last.pre, WrittenParent, Back(SplitPath(last.a))).v
    ELSE FindFirstFree(last.pre.ib).v

\* the blocks whose bit the call set: free before the call or freed by it as
\* the old content of the file, and allocated on return
MarkedByCall ==
    {b \in Blocks(S) :
        /\ BitmapGet(BlockBitmap, b)
        /\ \/ ~BitmapGet(last.pre.bb, b)
           \/ b \in SweepBlocks(last.pre, WrittenFile)}

\* C30: when writeFile fails part-way on an allocation, every block the call
\* marked allocated is reachable from the on-disk inode of the file (or, for
\* the block of a new entry, of its directory) when the call returns.
C30_FailedWriteLeaksNothing ==
    WriteFailedOnAllocation =>
      MarkedByCall \subseteq (SweepBlocks(S, WrittenFile) \cup SweepBlocks(S, WrittenParent.id))

\* ---------------------------------------------------------------------
\* The cached inode of the current directory
\* ---------------------------------------------------------------------
\* the current directory as the image holds it
CurrentOnDisk(s) == readINode(s, s.cur.id)

\* the last call added an entry through a relative path of one name
RelativeAdd ==
    /\ last.op \in {"writeFile", "createDirectory", "linkFile"}
    /\ last.err = NoErr
    /\ (IF last.op = "linkFile" THEN last.b ELSE last.a) \in {RelA, RelB}

\* C31: the cached inode of the current directory is never stale: listing the
\* current directory through the cached inode gives what the inode on disk
\* gives, with the root as current directory a relative name reads what the
\* absolute path reads, and an entry added through a relative path leaves
\* every block of the on-disk inode attached.
C31_CurrentNodeNeverStale ==
    formated =>
      /\ CurrentOnDisk(S).err = NoErr
           => GetChildren(S, currentNode) = GetChildren(S, CurrentOnDisk(S).v)
      /\ currentNode.id = superblock.rootNodeId =>
           /\ ReadFile(S, RelA) = ReadFile(S, PathA)
           /\ ReadFile(S, RelB) = ReadFile(S, PathB)
      /\ RelativeAdd =>
           SweepBlocks(last.pre, last.pre.cur.id) \subseteq SweepBlocks(S, last.pre.cur.id)

\* ---------------------------------------------------------------------
\* format that fails on the size
\* ---------------------------------------------------------------------
\* C32: a format call that fails with InvalidFilesystemSize leaves the image
\* and the engine as they were: the image keeps its length and content, the
\* superblock, the bitmaps, the current directory and the formatted flag are
\* unchanged, and the files of a formatted filesystem read as before.
C32_FailedFormatChangesNothing ==
    (last.op = "format" /\ last.err = "InvalidFilesystemSize") =>
      /\ NothingChanged
      /\ superblock = last.pre.sb
      /\ formated = last.pre.fmt
      /\ \A p \in AbsPaths : ReadFile(S, p) = ReadFile(last.pre, p)

\* ---------------------------------------------------------------------
\* Names within a directory
\* ---------------------------------------------------------------------
\* C33: no allocated directory holds two entries with the same name.
C33_NamesUnique ==
    formated =>
      \A d \in AllocatedDirs(S) :
        \A i, j \in 1..Len(EntriesOf(S, d)) :
          i # j => EntriesOf(S, d)[i].name # EntriesOf(S, d)[j].name

\* ---------------------------------------------------------------------
\* No block is shared
\* ---------------------------------------------------------------------
\* C34: no block occurs twice in the sweeps of the allocated inodes (neither
\* in two inodes nor twice in one), and the block AllocateBlock would return
\* next occurs in none.
C34_NoBlockShared ==
    formated =>
      /\ \A b \in Blocks(S) : Occurrences(S, b) <= 1
      /\ FindFirstFree(BlockBitmap).has => Occurrences(S, FindFirstFree(BlockBitmap).v) = 0

\* ---------------------------------------------------------------------
\* AllocateNode(true) without a free block
\* ---------------------------------------------------------------------
\* the last call was a createDirectory that reached AllocateNode with a free
\* inode and no free block
NoBlockForDirectory ==
    /\ last.op = "createDirectory"
    /\ last.a # <<>>
    /\ ResolveParent(last.pre, last.a).err = NoErr
    /\ FindFirstFree(last.pre.ib).has
    /\ ~FindFirstFree(last.pre.bb).has

\* C35: when AllocateNode(true) finds a free inode and no free block it
\* returns no inode and leaves the bitmaps and the image as they were, and
\* createDirectory fails with CouldNotAllocateNode and changes nothing.
C35_NoBlockNoInode ==
    NoBlockForDirectory =>
      /\ ~AllocateNode(last.pre, TRUE).has
      /\ AllocateNode(last.pre, TRUE).s = last.pre
      /\ last.err = "CouldNotAllocateNode"
      /\ NothingChanged

C35_Witness ==
    /\ NoBlockForDirectory
    /\ last.err = "CouldNotAllocateNode"
    /\ ~BitmapGet(INodeBitmap, FindFirstFree(last.pre.ib).v)

\* ---------------------------------------------------------------------
\* SpecBig: files up to the double-indirect tier, written and overwritten
\* through two names on a filesystem of 32 blocks and 8 inodes.
\* ---------------------------------------------------------------------
BigFs == 1400

\* a full direct array with a full single-indirect table, one block more, and
\* a file with two second-level tables
DataFullSingle == Bytes((DIRECT_LINKS + ModelBlockSize \div ID_ENTRYSIZE) * ModelBlockSize, 90)
DataDouble == Bytes((DIRECT_LINKS + ModelBlockSize \div ID_ENTRYSIZE) * ModelBlockSize + 1, 120)
DataTwoTables == Bytes((DIRECT_LINKS + 2 * (ModelBlockSize \div ID_ENTRYSIZE)) * ModelBlockSize + 1, 150)

BigInit == Mounted(Construct(FreshImage(BigFs)))
BigWriteFile ==
    DoWriteFile({PathA, PathB},
                {DataEmpty, DataV, DataFullSingle, DataDouble, DataTwoTables})
BigRemoveFile == DoRemoveFile({PathA, PathB})
BigLinkFile == DoLinkFile({<<PathA, PathB>>})

BigNext ==
    \/ BigWriteFile
    \/ BigRemoveFile
    \/ BigLinkFile

SpecBig == BigInit /\ [][BigNext]_vars

\* the lists of a list of tables, concatenated
RECURSIVE TiersOf(_, _)
TiersOf(s, tables) ==
    IF tables = <<>> THEN <<>>
    ELSE Tier(s, Head(tables)).v \o TiersOf(s, Tail(tables))

\* the data blocks of a file inode in the order of the tiers
DataBlocksOf(s, node) ==
    LiveDirect(node) \o Tier(s, node.indirect1).v
      \o TiersOf(s, Tier(s, node.indirect2).v)

\* ceil(a / b)
CeilDiv(a, b) == (a + b - 1) \div b

\* the part of data that goes into its i-th block
Chunk(data, i, size) == SubSeq(data, (i - 1) * size + 1, Min(i * size, Len(data)))

\* C36: after a successful writeFile of len bytes, n = ceil(len / blockSize)
\* and k = blockSize / 4, the file's inode on disk has exactly n data blocks,
\* which hold the data in write order; it has no table for n <= 5, the
\* single-indirect table alone for 5 < n <= 5 + k, and the double-indirect
\* table with ceil((n - 5 - k) / k) second-level tables for n > 5 + k; the
\* stored size is len.
C36_BlocksAndTables ==
    Succeeded("writeFile") =>
      LET node == ResolvePath(S, last.a).v
          n == CeilDiv(Len(last.data), superblock.blockSize)
          k == IdsPerBlock(S)
          blocks == DataBlocksOf(S, node)
      IN /\ Resolves(S, last.a)
         /\ node.size = Len(last.data)
         /\ Len(blocks) = n
         /\ \A i \in 1..n :
              ReadBytes(S, BlockOffset(S, blocks[i]),
                        Len(Chunk(last.data, i, superblock.blockSize)))
                = Chunk(last.data, i, superblock.blockSize)
         /\ (node.indirect1 # UNUSED_LINK) <=> (n > DIRECT_LINKS)
         /\ (node.indirect2 # UNUSED_LINK) <=> (n > DIRECT_LINKS + k)
         /\ Len(Tier(S, node.indirect2).v) = CeilDiv(Max(n - DIRECT_LINKS - k, 0), k)

C36_Witness ==
    /\ Succeeded("writeFile")
    /\ last.data = DataTwoTables
    /\ Len(Tier(S, ResolvePath(S, last.a).v.indirect2).v) = 2
    /\ Resolves(last.pre, last.a)

\* ---------------------------------------------------------------------
\* Overwriting a file through one of its names
\* ---------------------------------------------------------------------
\* a successful writeFile on a name that was a file before the call
Overwrote == Succeeded("writeFile") /\ Resolves(last.pre, last.a) /\ ~PreTarget.isDir

\* C37: a successful writeFile on an existing file, through any of its names,
\* keeps the inode id and the link count; every block of the old content, data
\* block or table, is afterwards free or part of the new content, and no other
\* block is marked; every name that led to the inode before reads the new
\* content.
C37_OverwriteThroughAnyName ==
    Overwrote =>
      /\ Resolves(S, last.a)
      /\ ResolvePath(S, last.a).v.id = PreTarget.id
      /\ ResolvePath(S, last.a).v.links = PreTarget.links
      /\ LET old == SweepBlocks(last.pre, PreTarget.id)
             new == SweepBlocks(S, PreTarget.id)
         IN {b \in Blocks(S) : BitmapGet(BlockBitmap, b)}
              = new \cup ({b \in Blocks(S) : BitmapGet(last.pre.bb, b)} \ old)
      /\ \A q \in {PathA, PathB} :
           (Resolves(last.pre, q) /\ ResolvePath(last.pre, q).v.id = PreTarget.id)
             => ReadFile(S, q) = [err |-> NoErr, v |-> last.data]

C37_Witness ==
    /\ Overwrote
    /\ PreTarget.links = 2
    /\ PreTarget.indirect2 # UNUSED_LINK
    /\ last.a = PathB
    /\ last.data = DataV
    /\ ReadFile(S, PathA) = [err |-> NoErr, v |-> DataV]

\* ---------------------------------------------------------------------
\* ParseSize (helpers/SizeParser.h) and FilesystemInterface::cmd_format.
\* A string is a sequence of characters; a uint64_t is four 16-bit limbs, the
\* lowest first.
\* ---------------------------------------------------------------------
DigitChars == <<"0", "1", "2", "3", "4", "5", "6", "7", "8", "9">>

isdigit(c) == \E d \in 1..Len(DigitChars) : DigitChars[d] = c

DigitValue(c) == (CHOOSE d \in 1..Len(DigitChars) : DigitChars[d] = c) - 1

toupper(c) ==
    IF c = "b" THEN "B" ELSE IF c = "k" THEN "K" ELSE IF c = "m" THEN "M"
    ELSE IF c = "g" THEN "G" ELSE IF c = "x" THEN "X" ELSE c

Zero64 == <<0, 0, 0, 0>>

\* v * m + c on the limbs, and what is carried out of bit 63
MulAdd(v, m, c) ==
    LET p1 == v[1] * m + c
        p2 == v[2] * m + p1 \div 65536
        p3 == v[3] * m + p2 \div 65536
        p4 == v[4] * m + p3 \div 65536
    IN [v |-> <<p1 % 65536, p2 % 65536, p3 % 65536, p4 % 65536>>,
        carry |-> p4 \div 65536]

\* a > b on the limbs
Greater64(a, b) ==
    \E i \in 1..4 : a[i] > b[i] /\ \A j \in (i + 1)..4 : a[j] = b[j]

\* std::stoull on a digit string: out_of_range past 2^64 - 1
RECURSIVE stoull(_, _)
stoull(digits, acc) ==
    IF ~acc.ok \/ digits = <<>> THEN acc
    ELSE stoull(Tail(digits),
                [ok |-> MulAdd(acc.v, 10, DigitValue(Head(digits))).carry = 0,
                 v |-> MulAdd(acc.v, 10, DigitValue(Head(digits))).v])

\* the length of the numeric prefix
RECURSIVE NumericPrefix(_)
NumericPrefix(input) ==
    IF input = <<>> \/ ~isdigit(Head(input)) THEN 0
    ELSE 1 + NumericPrefix(Tail(input))

\* the suffix in upper case
Suffix(input) ==
    [i \in 1..(Len(input) - NumericPrefix(input)) |->
        toupper(input[NumericPrefix(input) + i])]

\* the power of 1024 a suffix stands for (-1: unsupported unit)
Multiplier(suffix) ==
    IF suffix = <<>> \/ suffix = <<"B">> THEN 0
    ELSE IF suffix = <<"K", "B">> THEN 1
    ELSE IF suffix = <<"M", "B">> THEN 2
    ELSE IF suffix = <<"G", "B">> THEN 3
    ELSE -1

\* numeric_limits<uint64_t>::max() / multiplier: 2^(64 - 10 k) - 1
MaxOver(k) ==
    IF k = 0 THEN <<65535, 65535, 65535, 65535>>
    ELSE IF k = 1 THEN <<65535, 65535, 65535, 63>>
    ELSE IF k = 2 THEN <<65535, 65535, 4095, 0>>
    ELSE <<65535, 65535, 3, 0>>

\* value * 1024^k in 64 bits
RECURSIVE Times1024(_, _)
Times1024(v, k) == IF k = 0 THEN v ELSE Times1024(MulAdd(v, 1024, 0).v, k - 1)

\* ParseSize: ok and the bytes; outBytes is left alone when it fails
ParseSize(input, outBytes) ==
    IF input = <<>> THEN [ok |-> FALSE, v |-> outBytes]
    ELSE IF NumericPrefix(input) = 0 THEN [ok |-> FALSE, v |-> outBytes]
    ELSE IF ~stoull(SubSeq(input, 1, NumericPrefix(input)), [ok |-> TRUE, v |-> Zero64]).ok
    THEN [ok |-> FALSE, v |-> outBytes]
    ELSE IF Multiplier(Suffix(input)) < 0 THEN [ok |-> FALSE, v |-> outBytes]
    ELSE IF Greater64(stoull(SubSeq(input, 1, NumericPrefix(input)),
                             [ok |-> TRUE, v |-> Zero64]).v,
                      MaxOver(Multiplier(Suffix(input))))
    THEN [ok |-> FALSE, v |-> outBytes]
    ELSE [ok |-> TRUE,
          v |-> Times1024(stoull(SubSeq(input, 1, NumericPrefix(input)),
                                 [ok |-> TRUE, v |-> Zero64]).v,
                          Multiplier(Suffix(input)))]

\* the conversion of the uint64_t argument to Format's uint32_t parameter
ToUInt32(v) ==
    IF v[2] >= 32768 THEN (v[2] - 65536) * 65536 + v[1] ELSE v[2] * 65536 + v[1]

\* cmd_format with one argument: the size starts as 0, the result of ParseSize
\* is not looked at
cmd_format(s, arg) == Format(s, ToUInt32(ParseSize(arg, Zero64).v))

\* the size strings typed
SizeArgs ==
    {<<"1", "0", "0">>, <<"1", "k", "b">>, <<"4", "G", "B">>, <<"7", "2", "0">>,
     <<"a", "b", "c">>, <<"1", "2", "X", "B">>, <<"7", "2", "0", "B">>,
     <<"4", "1", "9", "4", "3", "0", "4", "K", "B">>,
     <<"4", "2", "9", "4", "9", "6", "8", "0", "1", "6">>,
     <<"1", "8", "0", "1", "4", "3", "9", "8", "5", "0", "9", "4", "8", "1", "9", "8", "4",
        "K", "B">>,
     <<"9", "9", "9", "9", "9", "9", "9", "9", "9", "9",
        "9", "9", "9", "9", "9", "9", "9", "9", "9", "9">>}

DoCmdFormat(args) ==
    /\ ops < MaxOps
    /\ \E arg \in args :
         Commit(cmd_format(S, arg),
                [Call("cmd_format", arg, <<>>, <<>>)
                   EXCEPT !.data = <<ToUInt32(ParseSize(arg, Zero64).v)>>])

SizeFormat == DoCmdFormat(SizeArgs)
SizeWriteFile == DoWriteFile({PathA}, {DataX, DataY})
SizeCreateDirectory == DoCreateDirectory({PathD})

SizeNext ==
    \/ SizeFormat
    \/ SizeWriteFile
    \/ SizeCreateDirectory

SpecSize == TreeInit /\ [][SizeNext]_vars

\* the 64-bit value of the uint32_t that reached Format
Reached == <<last.data[1] % 65536, (last.data[1] \div 65536) % 65536, 0, 0>>

\* C38: the format command formats with the size typed: when the size string
\* is accepted, the byte count that reaches Format is the parsed 64-bit value;
\* when it is not, the image is neither resized nor erased.
C38_FormatGetsTypedSize ==
    last.op = "cmd_format" =>
      IF ParseSize(last.a, Zero64).ok
      THEN Reached = ParseSize(last.a, Zero64).v
      ELSE image = last.pre.img

\* ---------------------------------------------------------------------
\* Filesystem::DeattachBlock: [s, node]
\* ---------------------------------------------------------------------
\* INode::removeDirectLink: the first slot that holds the link becomes UNUSED
removeDirectLink(n, link) ==
    [n EXCEPT !.direct[Least({i \in 1..DIRECT_LINKS : n.direct[i] = link})] = UNUSED_LINK]

\* the index of the first id of a table equal to value (0: none)
TargetOf(ids, value) ==
    IF \E i \in 1..Len(ids) : ids[i] = value
    THEN Least({i \in 1..Len(ids) : ids[i] = value})
    ELSE 0

\* RemoveFromBlockIdTable after the read of the table: [s, ok]; the last id
\* takes the place of the target and the last slot is cleared
RemovedFrom(s, tableBlock, ids, value) ==
    IF ids.err # NoErr THEN [s |-> Throw(s, ids.err), ok |-> FALSE]
    ELSE IF TargetOf(ids.v, value) = 0 THEN [s |-> s, ok |-> FALSE]
    ELSE [s |-> WriteBytes(
                  IF TargetOf(ids.v, value) # Len(ids.v)
                  THEN WriteBytes(s, BlockOffset(s, tableBlock)
                                       + (TargetOf(ids.v, value) - 1) * ID_ENTRYSIZE,
                                  ReadBytes(s, BlockOffset(s, tableBlock)
                                                 + (Len(ids.v) - 1) * ID_ENTRYSIZE,
                                            ID_ENTRYSIZE))
                  ELSE s,
                  BlockOffset(s, tableBlock) + (Len(ids.v) - 1) * ID_ENTRYSIZE,
                  Fill(ID_ENTRYSIZE, 255)),
          ok |-> TRUE]

RemoveFromBlockIdTable(s, tableBlock, value) ==
    IF Failed(s) THEN [s |-> s, ok |-> FALSE]
    ELSE RemovedFrom(s, tableBlock, ReadBlockAsBlockIds(s, tableBlock), value)

\* "if ... table is now empty, free it": the table of a tier of the inode
EmptyTableFreed(s, node, tier, ids) ==
    IF Failed(s) THEN [s |-> s, node |-> node]
    ELSE IF ids.err # NoErr THEN [s |-> Throw(s, ids.err), node |-> node]
    ELSE IF ids.v # <<>> THEN [s |-> s, node |-> node]
    ELSE [s |-> FreeBlock(s, node[tier]), node |-> [node EXCEPT ![tier] = UNUSED_LINK]]

\* "if second-level table empty, free it"
EmptySecondFreed(s, ind2, ptr, ids) ==
    IF Failed(s) THEN s
    ELSE IF ids.err # NoErr THEN Throw(s, ids.err)
    ELSE IF ids.v # <<>> THEN s
    ELSE FreeBlock(RemoveFromBlockIdTable(s, ind2, ptr).s, ptr)

\* the block was in the second-level table ptr; s is the state after
\* FreeBlock(block)
SecondLevelDone(s, node, ptr) ==
    Persist(EmptyTableFreed(
              EmptySecondFreed(s, node.indirect2, ptr, ReadBlockAsBlockIds(s, ptr)),
              node, "indirect2",
              ReadBlockAsBlockIds(
                EmptySecondFreed(s, node.indirect2, ptr, ReadBlockAsBlockIds(s, ptr)),
                node.indirect2)))

\* the loop over the second-level tables
RECURSIVE DetachFrom(_, _, _)

DetachTried(at, r, ptr, rest, block) ==
    IF Failed(r.s) THEN [at EXCEPT !.s = r.s]
    ELSE IF ~r.ok THEN DetachFrom(at, rest, block)
    ELSE SecondLevelDone(FreeBlock(r.s, block), at.node, ptr)

DetachFrom(at, ptrs, block) ==
    IF ptrs.err # NoErr THEN ThrowAt(at, ptrs.err)
    ELSE IF ptrs.v = <<>> THEN ThrowAt(at, "BlockNotAttached")
    ELSE DetachTried(at, RemoveFromBlockIdTable(at.s, Head(ptrs.v), block),
                     Head(ptrs.v), Ok(Tail(ptrs.v)), block)

DetachDouble(at, block) ==
    IF at.node.indirect2 = UNUSED_LINK THEN ThrowAt(at, "BlockNotAttached")
    ELSE DetachFrom(at, ReadBlockAsBlockIds(at.s, at.node.indirect2), block)

\* the single-indirect tier after RemoveFromBlockIdTable
DetachSingleTried(at, r, block) ==
    IF Failed(r.s) THEN [at EXCEPT !.s = r.s]
    ELSE IF ~r.ok THEN DetachDouble(at, block)
    ELSE Persist(EmptyTableFreed(FreeBlock(r.s, block), at.node, "indirect1",
                                 ReadBlockAsBlockIds(FreeBlock(r.s, block),
                                                     at.node.indirect1)))

DetachSingle(at, block) ==
    IF at.node.indirect1 = UNUSED_LINK THEN DetachDouble(at, block)
    ELSE DetachSingleTried(at, RemoveFromBlockIdTable(at.s, at.node.indirect1, block),
                           block)

DeattachBlock(at, block) ==
    IF \E i \in 1..DIRECT_LINKS : at.node.direct[i] = block
    THEN Persist([s |-> FreeBlock(at.s, block), node |-> removeDirectLink(at.node, block)])
    ELSE DetachSingle(at, block)

\* ---------------------------------------------------------------------
\* SpecDetach: DeattachBlock on the inode of /a as read from the image, with
\* files that reach every tier
\* ---------------------------------------------------------------------
DataSix == Bytes(DIRECT_LINKS * ModelBlockSize + 1, 30)

\* the first and the last element of a list
Ends(seq) == IF seq = <<>> THEN {} ELSE {seq[1], seq[Len(seq)]}

\* the blocks tried: the ends of the direct links and of every table, the
\* tables themselves, and the first free block
DetachCandidates(s, node) ==
    Ends(UsedLinks(node.direct))
      \cup Ends(Tier(s, node.indirect1).v)
      \cup UNION {Ends(Tier(s, Tier(s, node.indirect2).v[i]).v) :
                    i \in 1..Len(Tier(s, node.indirect2).v)}
      \cup {Tier(s, node.indirect2).v[i] : i \in 1..Len(Tier(s, node.indirect2).v)}
      \cup ({node.indirect1, node.indirect2} \ {UNUSED_LINK})
      \cup (IF FindFirstFree(s.bb).has THEN {FindFirstFree(s.bb).v} ELSE {})

DoDeattachBlock(paths) ==
    /\ ops < MaxOps /\ formated
    /\ \E p \in paths :
         /\ Resolves(S, p)
         /\ ~ResolvePath(S, p).v.isDir
         /\ \E b \in DetachCandidates(S, ResolvePath(S, p).v) :
              Commit(DeattachBlock([s |-> S, node |-> ResolvePath(S, p).v], b).s,
                     [Call("detachBlock", p, <<>>, <<>>) EXCEPT !.data = <<b>>])

DetachInit == Mounted(WriteFile(Construct(FreshImage(BigFs)), PathA, DataTwoTables))
DetachBlock == DoDeattachBlock({PathA})
DetachWriteFile == DoWriteFile({PathA}, {DataSix, DataDouble})

DetachNext ==
    \/ DetachBlock
    \/ DetachWriteFile

SpecDetach == DetachInit /\ [][DetachNext]_vars

\* the data blocks an inode names: the used direct links and the ids in its
\* tables
AttachedTo(s, node) ==
    {UsedLinks(node.direct)[i] : i \in 1..Len(UsedLinks(node.direct))}
      \cup {Tier(s, node.indirect1).v[i] : i \in 1..Len(Tier(s, node.indirect1).v)}
      \cup {TiersOf(s, Tier(s, node.indirect2).v)[i] :
              i \in 1..Len(TiersOf(s, Tier(s, node.indirect2).v))}

\* the direct links and the tables are left-packed, and no linked table is
\* empty
PackedNoEmptyTable(s, node) ==
    /\ NodePacked(s, node)
    /\ \A t \in TablesOf(s, node) : Tier(s, t).v # <<>>

\* C39: DeattachBlock(node, b) with b attached removes b: afterwards b is free
\* and not attached, every other attached block is still attached, the direct
\* links and every table are left-packed with no empty table left linked, and
\* the tables no longer linked are free; with b not attached it fails with
\* BlockNotAttached and changes nothing.
C39_DetachCompacts ==
    last.op = "detachBlock" =>
      LET b == last.data[1]
          before == PreTarget
          after == ResolvePath(S, last.a).v
      IN IF b \in AttachedTo(last.pre, before)
         THEN /\ last.err = NoErr
              /\ ~BitmapGet(BlockBitmap, b)
              /\ AttachedTo(S, after) = AttachedTo(last.pre, before) \ {b}
              /\ PackedNoEmptyTable(S, after)
              /\ {c \in Blocks(S) : BitmapGet(BlockBitmap, c)}
                   = {c \in Blocks(S) : BitmapGet(last.pre.bb, c)}
                       \ ({b} \cup (TablesOf(last.pre, before) \ TablesOf(S, after)))
         ELSE last.err = "BlockNotAttached" /\ NothingChanged

====
